---- MODULE Spec2Model ----
(***************************************************************************)
(* A model of the document indexer (scan_kb.py, versioning.py,             *)
(* classify.py, summarizer.py, extractors.py).  Strings are sequences of   *)
(* one-character tokens; a token written with several letters ("NEN",      *)
(* "TAB") stands for one character that is not printable ASCII.            *)
(*                                                                         *)
(* Specifications:                                                         *)
(*   Spec           main(): runs of the indexer over a changing file tree  *)
(*   SpecDiscovery  iter_files(), one round of its loop per step           *)
(*   SpecDiscoveryFair  the same, a round that can be taken is taken       *)
(*   SpecVersion    infer_version_key applied to pairs of file names       *)
(*   SpecEncoding   the same, over names and mtimes that differ field by   *)
(*                  field                                                  *)
(*   SpecLatest     write_latest_map applied to lists of records           *)
(*   SpecMerge      _upsert_aliases_in_existing_md applied twice           *)
(*   SpecSystem     infer_system applied to files and lists of roots       *)
(***************************************************************************)
EXTENDS Integers, Sequences, FiniteSets, TLC

VARIABLES
    cfg,          \* the configuration main() loaded (config.yml)
    tree,         \* the regular files of the file tree: path -> presence, mtime, size, content
    links,        \* the shortcut (.lnk) files of the file tree: path -> presence, Targetpath
    queue,        \* iter_files: the work queue of directories
    visited_dirs, \* iter_files: the normalized keys of the directories walked from
    items,        \* iter_files: the ScanItems yielded so far
    walk_log,     \* history: the directories os.walk was started on, in order
    enum_log,     \* history: the directories whose entries os.walk listed, in order
    push_log,     \* history: the directories appended to the queue through a shortcut
    ver_in,       \* the two (filename, mtime) inputs handed to infer_version_key
    ver_out,      \* the two keys computed from them, or <<>> before the call
    call_in,      \* the arguments handed to a function called on its own
    call_out,     \* what the call returned, or <<>> before the call
    state_file,   \* <out>/state.json: whether it exists, and the state it holds
    artifacts,    \* <out>/docs: doc_id -> the markdown artifact <doc_id>.md
    latest_map,   \* <out>/latest_map.md: whether it exists, and its lines
    pc,           \* main(): where the run stands ("idle" between runs)
    run,          \* main(): the locals of the current or last run, and its history
    used          \* the runs started and the changes made to the trees so far

fsvars == <<cfg, tree, links>>
dvars == <<queue, visited_dirs, items, walk_log, enum_log, push_log>>
vvars == <<ver_in, ver_out, call_in, call_out>>
ovars == <<state_file, artifacts, latest_map>>
pvars == <<state_file, artifacts, latest_map, pc, run, used>>
vars == <<cfg, tree, links, queue, visited_dirs, items, walk_log, enum_log, push_log,
          ver_in, ver_out, call_in, call_out, state_file, artifacts, latest_map, pc, run, used>>

(***************************************************************************)
(* Characters and strings.                                                 *)
(***************************************************************************)
Digits == {"0", "1", "2", "3", "4", "5", "6", "7", "8", "9"}

UpperSeq == <<"A", "B", "C", "D", "E", "F", "G", "H", "I", "J", "K", "L", "M",
              "N", "O", "P", "Q", "R", "S", "T", "U", "V", "W", "X", "Y", "Z">>

LowerSeq == <<"a", "b", "c", "d", "e", "f", "g", "h", "i", "j", "k", "l", "m",
              "n", "o", "p", "q", "r", "s", "t", "u", "v", "w", "x", "y", "z">>

UpperLetters == {UpperSeq[i] : i \in 1..26}

LowerLetters == {LowerSeq[i] : i \in 1..26}

AsciiLetters == UpperLetters \cup LowerLetters

\* the ideograms of the localized date form: year, month, day
Ideograms == {"NEN", "GATSU", "NICHI"}

IsDigit(c) == c \in Digits

\* Python's \w on str: alphanumerics of any script, and the underscore
IsWord(c) == c \in Digits \cup AsciiLetters \cup Ideograms \cup {"_"}

DigitVal(c) ==
    CASE c = "0" -> 0 [] c = "1" -> 1 [] c = "2" -> 2 [] c = "3" -> 3 [] c = "4" -> 4
      [] c = "5" -> 5 [] c = "6" -> 6 [] c = "7" -> 7 [] c = "8" -> 8 [] c = "9" -> 9

DigitChar(d) ==
    CASE d = 0 -> "0" [] d = 1 -> "1" [] d = 2 -> "2" [] d = 3 -> "3" [] d = 4 -> "4"
      [] d = 5 -> "5" [] d = 6 -> "6" [] d = 7 -> "7" [] d = 8 -> "8" [] d = 9 -> "9"

\* str.lower() on one character
Lower(c) == IF c \in UpperLetters THEN LowerSeq[CHOOSE i \in 1..26 : UpperSeq[i] = c] ELSE c

\* str.lower()
LowerStr(s) == [i \in 1..Len(s) |-> Lower(s[i])]

\* w in s, for strings
Contains(s, w) == \E i \in 0..(Len(s) - Len(w)) : \A t \in 1..Len(w) : s[i + t] = w[t]

\* the character at position i, "" outside the string
At(s, i) == IF i >= 1 /\ i <= Len(s) THEN s[i] ELSE ""

WordAt(s, i) == i >= 1 /\ i <= Len(s) /\ IsWord(s[i])

\* the regex assertion \b just before position i
Boundary(s, i) == WordAt(s, i - 1) # WordAt(s, i)

\* the length of the maximal run of digits that starts at position j
RunLen(s, j) ==
    CHOOSE n \in 0..Len(s) :
        /\ \A t \in 0..(n - 1) : IsDigit(At(s, j + t))
        /\ ~IsDigit(At(s, j + n))

\* int() of a string of digits
RECURSIVE IntOf(_)
IntOf(ds) == IF ds = <<>> THEN 0 ELSE 10 * IntOf(SubSeq(ds, 1, Len(ds) - 1)) + DigitVal(ds[Len(ds)])

\* s[a..b) as Python slices it
Slice(s, a, b) == SubSeq(s, a, b - 1)

\* whether s continues at position i with the lower-case word w, ignoring case
LooksAt(s, i, w) == \A t \in 1..Len(w) : Lower(At(s, i + t - 1)) = w[t]

NoMatch == <<"NoMatch">>

(***************************************************************************)
(* The file tree.  A path is a sequence of components, the drive first;    *)
(* a component is a string.  The directories are fixed; regular files and  *)
(* shortcut files come and go (tree, links).  File-system lookups ignore   *)
(* case, as on the platform where shortcuts resolve.                       *)
(***************************************************************************)
NoPath == <<>>

Drv == <<"c", ":">>

R == <<Drv, <<"r">>>>

SUB == <<Drv, <<"r">>, <<"s", "u", "b">>>>

\* another spelling of SUB, as a shortcut may record it
SUB_upper == <<Drv, <<"r">>, <<"S", "U", "B">>>>

OUT == <<Drv, <<"o">>>>

\* a path nothing exists at
GONE == <<Drv, <<"r">>, <<"g", "o", "n", "e">>>>

FA == R \o <<<<"a", ".", "d", "o", "c", "x">>>>

FB == SUB \o <<<<"b", ".", "d", "o", "c", "x">>>>

FC == OUT \o <<<<"c", ".", "d", "o", "c", "x">>>>

L1 == R \o <<<<"l", "1", ".", "l", "n", "k">>>>

L2 == SUB \o <<<<"l", "2", ".", "l", "n", "k">>>>

L3 == OUT \o <<<<"l", "3", ".", "l", "n", "k">>>>

\* a second shortcut to FA in R; unlike "\l" of L1, the "\t" its path spells is an
\* escape a replacement template knows
T1 == R \o <<<<"t", "1", ".", "l", "n", "k">>>>

\* a tree whose directory and file names begin with characters outside ASCII
K == <<Drv, <<"NEN">>>>

KF == K \o <<<<"GATSU", ".", "d", "o", "c", "x">>>>

KL1 == K \o <<<<"NICHI", "1", ".", "l", "n", "k">>>>

KL2 == K \o <<<<"NICHI", "2", ".", "l", "n", "k">>>>

Dirs == {R, SUB, OUT, K}

RegularFiles == {FA, FB, FC, KF}

LinkFiles == {L1, L2, L3, T1, KL1, KL2}

\* the order in which a directory listing returns its entries
Listing == <<FA, L1, T1, SUB, FB, L2, OUT, FC, L3, R, K, KF, KL1, KL2>>

Parent(p) == SubSeq(p, 1, Len(p) - 1)

\* Path.name
Name(p) == p[Len(p)]

\* os.path.normcase: lower case, component by component
NormCase(p) == [i \in 1..Len(p) |-> LowerStr(p[i])]

\* p lies at or below directory d, names compared without case
IsUnder(p, d) == Len(d) <= Len(p) /\ NormCase(SubSeq(p, 1, Len(d))) = NormCase(d)

\* the paths are absolute and normal already, so os.path.abspath changes nothing
_norm_key(p) == NormCase(p)

\* str(path): the components joined by the separator
RECURSIVE PathStr(_)
PathStr(p) ==
    IF Len(p) = 0 THEN <<>>
    ELSE IF Len(p) = 1 THEN p[1]
    ELSE PathStr(Parent(p)) \o <<"\\">> \o Name(p)

\* Path.suffix: the last dot of the name and what follows, unless the dot comes
\* first or last
Suffix(p) ==
    LET nm == IF p = NoPath THEN <<>> ELSE Name(p)
        dots == {i \in 1..Len(nm) : nm[i] = "."}
        i == IF dots = {} THEN 0 ELSE CHOOSE d \in dots : \A e \in dots : e <= d
    IN  IF i > 1 /\ i < Len(nm) THEN SubSeq(nm, i, Len(nm)) ELSE <<>>

DotLnk == <<".", "l", "n", "k">>

DotDocx == <<".", "d", "o", "c", "x">>

PresentFiles == {f \in RegularFiles : tree[f].present} \cup {l \in LinkFiles : links[l].present}

\* Path.exists(), Path.is_dir(), Path.is_file()
IsDir(p) == \E d \in Dirs : NormCase(d) = NormCase(p)

IsFile(p) == \E f \in PresentFiles : NormCase(f) = NormCase(p)

Exists(p) == IsDir(p) \/ IsFile(p)

\* the entry on disk that the spelling p names
OnDisk(p) == CHOOSE q \in Dirs \cup PresentFiles : NormCase(q) = NormCase(p)

\* the entries of directory d in listing order, spelled below d as os.walk spells them
SubDirsOf(d) ==
    LET real == OnDisk(d)
        seq == SelectSeq(Listing, LAMBDA q : q \in Dirs /\ Len(q) = Len(real) + 1 /\ Parent(q) = real)
    IN  [i \in 1..Len(seq) |-> d \o <<Name(seq[i])>>]

FilesOf(d) ==
    LET real == OnDisk(d)
        seq == SelectSeq(Listing, LAMBDA q : q \in PresentFiles /\ Parent(q) = real)
    IN  [i \in 1..Len(seq) |-> d \o <<Name(seq[i])>>]

(***************************************************************************)
(* scan_kb.py: discovery                                                   *)
(***************************************************************************)
\* _is_within_any_root gone wrong: only the drive is compared
_is_within_any_root_drive(target, roots) ==
    \E i \in 1..Len(roots) : NormCase(SubSeq(target, 1, 1)) = NormCase(SubSeq(roots[i], 1, 1))

\* os.path.commonpath([t, rr]) == rr: commonpath compares without case but answers in
\* the spelling of t, and raises on another drive
_is_within_any_root(target, roots) ==
    \E i \in 1..Len(roots) :
        /\ Len(roots[i]) <= Len(target)
        /\ NormCase(SubSeq(target, 1, Len(roots[i]))) = NormCase(roots[i])
        /\ SubSeq(target, 1, Len(roots[i])) = roots[i]

\* the Targetpath the shell reports for the shortcut, NoPath for None
_resolve_lnk_windows(lnk_path) ==
    IF \E l \in LinkFiles : links[l].present /\ NormCase(l) = NormCase(lnk_path)
    THEN links[CHOOSE l \in LinkFiles : NormCase(l) = NormCase(lnk_path)].target
    ELSE NoPath

\* the loop of _resolve_lnk_chain_windows with n rounds left
RECURSIVE ChainLoop(_, _)
ChainLoop(cur, n) ==
    IF n = 0 THEN cur
    ELSE IF LowerStr(Suffix(cur)) # DotLnk THEN cur
    ELSE IF _resolve_lnk_windows(cur) = NoPath THEN NoPath
    ELSE ChainLoop(_resolve_lnk_windows(cur), n - 1)

_resolve_lnk_chain_windows(lnk_path, max_chain) ==
    ChainLoop(lnk_path, IF max_chain > 1 THEN max_chain ELSE 1)

include_ext_l == {LowerStr(e) : e \in cfg.include_ext}

exclude_dirs_l == {LowerStr(d) : d \in cfg.exclude_dirs}

exclude_dir_kw_l == {LowerStr(k) : k \in {w \in cfg.exclude_dir_keywords : w # <<>>}}

_is_excluded_dirname(dn) ==
    \/ LowerStr(dn) \in exclude_dirs_l
    \/ \E kw \in exclude_dir_kw_l : Contains(LowerStr(dn), kw)

\* any(rx.search(s) for rx in compiled); the patterns are literal text
RegexExcluded(p) == \E rx \in cfg.exclude_path_regex : Contains(PathStr(p), rx)

EmptyWalk == [items |-> <<>>, pushes |-> <<>>, dirs |-> <<>>]

WalkCat(a, b) ==
    [items |-> a.items \o b.items, pushes |-> a.pushes \o b.pushes, dirs |-> a.dirs \o b.dirs]

ScanItem(path, alias_from) == [path |-> path, alias_from |-> alias_from]

\* lines 220-240: what the shortcut p contributes
ShortcutStep(p) ==
    LET target == _resolve_lnk_chain_windows(p, cfg.shortcuts.max_chain)
    IN  IF target = NoPath THEN EmptyWalk
        ELSE IF (~cfg.shortcuts.allow_outside_roots) /\ ~_is_within_any_root(target, cfg.roots)
        THEN EmptyWalk
        ELSE IF IsDir(target)
        THEN IF /\ cfg.shortcuts.follow_dir_targets
                /\ ~_is_excluded_dirname(Name(target))
                /\ ~RegexExcluded(target)
             THEN [EmptyWalk EXCEPT !.pushes = <<target>>]
             ELSE EmptyWalk
        ELSE IF IsFile(target) /\ LowerStr(Suffix(target)) \in include_ext_l
        THEN [EmptyWalk EXCEPT !.items = <<ScanItem(target, p)>>]
        ELSE EmptyWalk

\* lines 213-245: what the file p of a listed directory contributes
FileStep(p) ==
    IF RegexExcluded(p) THEN EmptyWalk
    ELSE IF cfg.shortcuts.enabled /\ LowerStr(Suffix(p)) = DotLnk THEN ShortcutStep(p)
    ELSE IF LowerStr(Suffix(p)) \notin include_ext_l THEN EmptyWalk
    ELSE [EmptyWalk EXCEPT !.items = <<ScanItem(p, NoPath)>>]

\* the files of one listing, from the i-th on
RECURSIVE FilesFrom(_, _)
FilesFrom(fs, i) == IF i > Len(fs) THEN EmptyWalk ELSE WalkCat(FileStep(fs[i]), FilesFrom(fs, i + 1))

\* lines 203-211: the subdirectories os.walk goes on into
KeptDirs(d) ==
    SelectSeq(SubDirsOf(d), LAMBDA q : ~_is_excluded_dirname(Name(q)) /\ ~RegexExcluded(q))

\* os.walk(d), top down, with the loop body of lines 190-245
RECURSIVE os_walk(_)
RECURSIVE WalkDirsFrom(_, _)
os_walk(d) ==
    IF ~IsDir(d) THEN EmptyWalk
    ELSE WalkCat([EmptyWalk EXCEPT !.dirs = <<d>>],
                 WalkCat(FilesFrom(FilesOf(d), 1), WalkDirsFrom(KeptDirs(d), 1)))

WalkDirsFrom(ds, i) == IF i > Len(ds) THEN EmptyWalk ELSE WalkCat(os_walk(ds[i]), WalkDirsFrom(ds, i + 1))

\* the state of the generator
DiscState ==
    [queue |-> queue, visited_dirs |-> visited_dirs, items |-> items,
     walk_log |-> walk_log, enum_log |-> enum_log, push_log |-> push_log]

DiscStart(roots) ==
    [queue |-> roots, visited_dirs |-> {}, items |-> <<>>,
     walk_log |-> <<>>, enum_log |-> <<>>, push_log |-> <<>>]

\* AlreadyVisited gone wrong: the test of lines 185-186 left out
AlreadyVisited_never(st, root) == FALSE

\* lines 184-186: whether the directory popped is walked
AlreadyVisited(st, root) == _norm_key(root) \in st.visited_dirs

\* one round of the loop of lines 179-245
\* iter_round gone wrong: a directory walked from before goes to the back of the queue
iter_round_requeue(st) ==
    LET root == Head(st.queue)
        w == os_walk(root)
    IN  IF ~Exists(root) THEN [st EXCEPT !.queue = Tail(st.queue)]
        ELSE IF AlreadyVisited(st, root) THEN [st EXCEPT !.queue = Tail(st.queue) \o <<root>>]
        ELSE [queue |-> Tail(st.queue) \o w.pushes,
              visited_dirs |-> st.visited_dirs \cup {_norm_key(root)},
              items |-> st.items \o w.items,
              walk_log |-> Append(st.walk_log, root),
              enum_log |-> st.enum_log \o w.dirs,
              push_log |-> st.push_log \o w.pushes]

iter_round(st) ==
    LET root == Head(st.queue)
        w == os_walk(root)
    IN  IF ~Exists(root) THEN [st EXCEPT !.queue = Tail(st.queue)]
        ELSE IF AlreadyVisited(st, root) THEN [st EXCEPT !.queue = Tail(st.queue)]
        ELSE [queue |-> Tail(st.queue) \o w.pushes,
              visited_dirs |-> st.visited_dirs \cup {_norm_key(root)},
              items |-> st.items \o w.items,
              walk_log |-> Append(st.walk_log, root),
              enum_log |-> st.enum_log \o w.dirs,
              push_log |-> st.push_log \o w.pushes]

\* the loop run to its end
RECURSIVE IterLoop(_)
IterLoop(st) == IF st.queue = <<>> THEN st ELSE IterLoop(iter_round(st))

\* list(iter_files(roots, ...))
iter_files(roots) == IterLoop(DiscStart(roots)).items

(***************************************************************************)
(* scan_kb.py: artifacts.  A markdown artifact is its front matter (the    *)
(* YAML text between the two "---" lines, kept as the record of the values *)
(* it spells) and the lines after it.  A line is a string; the tokens      *)
(* "# ", "## ", "- " and the section names stand for that literal text.    *)
(***************************************************************************)
NoneVal == <<"None">>

\* the characters a replacement template's escapes \a \b \f \n \r \t \v produce
ControlChars == {"BEL", "BS", "FF", "LF", "CR", "TAB", "VT", "NUL"}

EscapeChar(c) ==
    CASE c = "a" -> "BEL" [] c = "b" -> "BS" [] c = "f" -> "FF" [] c = "n" -> "LF"
      [] c = "r" -> "CR" [] c = "t" -> "TAB" [] c = "v" -> "VT" [] c = "0" -> "NUL"

TemplateError == [ok |-> FALSE, text |-> <<>>]

\* re's parse_template on the replacement text from position i: "\\" gives one
\* backslash, \a \b \f \n \r \t \v and \0 give a control character, a backslash
\* before another ASCII letter is a bad escape, before 1-9 a reference to a group the
\* pattern does not have, at the end of the text an error; before anything else the
\* backslash stays
RECURSIVE ExpandFrom(_, _)
ExpandFrom(s, i) ==
    IF i > Len(s) THEN [ok |-> TRUE, text |-> <<>>]
    ELSE IF s[i] # "\\"
    THEN LET rest == ExpandFrom(s, i + 1)
         IN  IF rest.ok THEN [ok |-> TRUE, text |-> <<s[i]>> \o rest.text] ELSE TemplateError
    ELSE IF i = Len(s) THEN TemplateError
    ELSE LET c == s[i + 1]
             rest == ExpandFrom(s, i + 2)
         IN  IF c \in (AsciiLetters \ {"a", "b", "f", "n", "r", "t", "v"}) \cup (Digits \ {"0"})
             THEN TemplateError
             ELSE IF ~rest.ok THEN TemplateError
             ELSE IF c = "\\" THEN [ok |-> TRUE, text |-> <<"\\">> \o rest.text]
             ELSE IF c \in {"a", "b", "f", "n", "r", "t", "v", "0"}
             THEN [ok |-> TRUE, text |-> <<EscapeChar(c)>> \o rest.text]
             ELSE [ok |-> TRUE, text |-> <<"\\", c>> \o rest.text]

ExpandTemplate(s) == ExpandFrom(s, 1)

\* s.replace("\r\n", "\n").replace("\r", "\n")
RECURSIVE md_escape(_)
md_escape(s) ==
    IF s = <<>> THEN <<>>
    ELSE IF s[1] = "CR" /\ Len(s) >= 2 /\ s[2] = "LF" THEN <<"LF">> \o md_escape(SubSeq(s, 3, Len(s)))
    ELSE IF s[1] = "CR" THEN <<"LF">> \o md_escape(Tail(s))
    ELSE <<s[1]>> \o md_escape(Tail(s))

\* the string fields of a front matter, and its list fields
FMStrings == {"title", "path", "rel_path", "ext", "updated_at", "sha1", "system", "screen_id",
              "doc_type", "version_key"}

FMLists == {"keywords", "aliases"}

HasControl(s) == \E i \in 1..Len(s) : s[i] \in ControlChars

\* yaml.safe_load of a front matter text: the values it spells, unless a control
\* character has come into the text.  The YAML reader refuses every control character
\* but TAB, LF and CR; a text spoilt by these three alone is taken for unreadable as
\* well, and in the trees of this model no such text comes up: a front matter that
\* carries one of them carries a BEL in its path too.
YamlLoad(fm) ==
    IF \/ \E f \in FMStrings : HasControl(fm[f])
       \/ \E f \in FMLists : \E i \in 1..Len(fm[f]) : HasControl(fm[f][i])
    THEN [ok |-> FALSE, data |-> fm]
    ELSE [ok |-> TRUE, data |-> fm]

\* an artifact opened for writing and not yet written: an empty file
Truncated == [fm |-> <<>>, body |-> <<>>]

\* lines 310-317: the "---" lines are there in every artifact that has any text, so
\* the pattern of line 311 fails on the empty file only
_read_front_matter(md) == IF md.fm = <<>> THEN [ok |-> FALSE, data |-> <<>>] ELSE YamlLoad(md.fm)

\* the front matter text dumped from fm, as re.sub writes it when handed that text as
\* the replacement template
ExpandFM(fm) ==
    LET ex(f) == ExpandTemplate(fm[f])
        exl(f) == [i \in 1..Len(fm[f]) |-> ExpandTemplate(fm[f][i])]
    IN  IF /\ \A f \in FMStrings : ex(f).ok
           /\ \A f \in FMLists : \A i \in 1..Len(fm[f]) : exl(f)[i].ok
        THEN [ok |-> TRUE,
              text |-> [f \in DOMAIN fm |->
                          IF f \in FMStrings THEN ex(f).text
                          ELSE IF f \in FMLists THEN [i \in 1..Len(fm[f]) |-> exl(f)[i].text]
                          ELSE fm[f]]]
        ELSE [ok |-> FALSE, text |-> fm]

Blank == <<>>

H1(title) == <<"# ">> \o title

Hdr(name) == <<"## ", name>>

Item(text) == <<"- ">> \o text

AliasHdr == Hdr("ALIASES (shortcuts / links)")

PathHdr == Hdr("PATH")

\* a line the pattern ^## \w matches
IsHeaderLine(ln) == Len(ln) >= 2 /\ ln[1] = "## "

OrEmpty(v) == IF v = NoneVal THEN <<>> ELSE v

\* ", ".join(words)
RECURSIVE JoinComma(_)
JoinComma(ws) ==
    IF ws = <<>> THEN <<>>
    ELSE IF Len(ws) = 1 THEN ws[1]
    ELSE ws[1] \o <<",", " ">> \o JoinComma(Tail(ws))

\* text.strip() at the end of the artifact: the trailing blank lines go
RECURSIVE StripTrailing(_)
StripTrailing(ls) ==
    IF ls # <<>> /\ ls[Len(ls)] = Blank THEN StripTrailing(SubSeq(ls, 1, Len(ls) - 1)) ELSE ls

ItemLines(ss) == [i \in 1..Len(ss) |-> Item(md_escape(ss[i]))]

FrontMatter(doc) ==
    [doc_id |-> doc.doc_id, title |-> doc.title, path |-> doc.path, rel_path |-> doc.rel_path,
     ext |-> doc.ext, size_bytes |-> doc.size_bytes, updated_at |-> doc.updated_at,
     sha1 |-> doc.sha1, system |-> doc.system, screen_id |-> doc.screen_id,
     doc_type |-> doc.doc_type, version_key |-> doc.version_key, keywords |-> doc.keywords,
     aliases |-> doc.aliases]

build_markdown(doc) ==
    [fm |-> FrontMatter(doc),
     body |-> StripTrailing(
        <<Blank, H1(md_escape(doc.title)), Blank, PathHdr, Blank, Item(md_escape(doc.path)), Blank>>
        \o (IF doc.aliases # <<>> THEN <<AliasHdr, Blank>> \o ItemLines(doc.aliases) \o <<Blank>>
            ELSE <<>>)
        \o <<Hdr("METADATA"), Blank,
             Item(<<"system: ">> \o OrEmpty(doc.system)),
             Item(<<"screen_id: ">> \o OrEmpty(doc.screen_id)),
             Item(<<"doc_type: ">> \o OrEmpty(doc.doc_type)),
             Item(<<"updated_at: ">> \o doc.updated_at),
             Item(<<"version_key: ">> \o doc.version_key),
             Item(<<"sha1: ">> \o doc.sha1), Blank>>
        \o (IF doc.headings # <<>> THEN <<Hdr("HEADINGS"), Blank>> \o ItemLines(doc.headings) \o <<Blank>>
            ELSE <<>>)
        \o (IF doc.preview # <<>> THEN <<Hdr("PREVIEW (limited)"), Blank, md_escape(doc.preview), Blank>>
            ELSE <<>>)
        \o (IF doc.summary # <<>> THEN <<Hdr("SUMMARY"), Blank, md_escape(doc.summary), Blank>>
            ELSE <<>>)
        \o (IF doc.keywords # <<>> THEN <<Hdr("KEYWORDS"), Blank, JoinComma(doc.keywords), Blank>>
            ELSE <<>>))]

\* the index of the first line equal to ln, 0 for none
FirstIndex(ls, ln) ==
    LET hits == {i \in 1..Len(ls) : ls[i] = ln}
    IN  IF hits = {} THEN 0 ELSE CHOOSE i \in hits : \A h \in hits : i <= h

\* the lines of alias_block as the template gives them: header, blank, one item each
AliasBlock(aliases) ==
    <<AliasHdr, Blank>> \o [i \in 1..Len(aliases) |-> Item(ExpandTemplate(md_escape(aliases[i])).text)]

\* lines 340-345: the section from its header up to the next "## " header or the end
ReplaceAliasSection(body, aliases) ==
    LET a == FirstIndex(body, AliasHdr)
        later == {i \in (a + 1)..Len(body) : IsHeaderLine(body[i])}
        e == IF later = {} THEN Len(body) + 1 ELSE CHOOSE i \in later : \A h \in later : i <= h
    IN  SubSeq(body, 1, a - 1) \o AliasBlock(aliases) \o <<Blank>> \o SubSeq(body, e, Len(body))

\* lines 348-354: after the first blank line that ends the PATH section
InsertAfterPath(body, aliases) ==
    LET ps == {i \in 1..(Len(body) - 2) :
                  /\ body[i] = PathHdr
                  /\ body[i + 1] = Blank
                  /\ Len(body[i + 2]) >= 1 /\ body[i + 2][1] = "- "}
        a == IF ps = {} THEN 0 ELSE CHOOSE i \in ps : \A h \in ps : i <= h
        ends == {j \in (a + 2)..(Len(body) - 1) : body[j + 1] = Blank}
        l == IF a = 0 \/ ends = {} THEN 0 ELSE CHOOSE j \in ends : \A h \in ends : j <= h
    IN  IF l = 0 THEN body
        ELSE SubSeq(body, 1, l) \o <<Blank>> \o AliasBlock(aliases) \o <<Blank, Blank>>
                 \o SubSeq(body, l + 2, Len(body))

\* the result of the call: the text returned, or raised when re.sub refuses the template
_upsert_aliases_in_existing_md(md_text, aliases) ==
    LET fm == _read_front_matter(md_text)
        dumped == ExpandFM([fm.data EXCEPT !.aliases = aliases])
    IN  IF aliases = <<>> THEN [raised |-> FALSE, md |-> md_text]
        ELSE IF ~fm.ok THEN [raised |-> FALSE, md |-> md_text]
        ELSE IF ~dumped.ok THEN [raised |-> TRUE, md |-> md_text]
        ELSE [raised |-> FALSE,
              md |-> [fm |-> dumped.text,
                      body |-> IF FirstIndex(md_text.body, AliasHdr) # 0
                               THEN ReplaceAliasSection(md_text.body, aliases)
                               ELSE InsertAfterPath(md_text.body, aliases)]]

(***************************************************************************)
(* versioning.py                                                           *)
(***************************************************************************)
DateSeps == {".", "/", "_", "-"}

\* (0[1-9]|1[0-2]) on two characters
IsMonth2(a, b) == \/ a = "0" /\ b \in Digits \ {"0"}
                  \/ a = "1" /\ b \in {"0", "1", "2"}

\* (0[1-9]|[12]\d|3[01]) on two characters
IsDay2(a, b) == \/ a = "0" /\ b \in Digits \ {"0"}
                \/ a \in {"1", "2"} /\ b \in Digits
                \/ a = "3" /\ b \in {"0", "1"}

\* ((?:19|20)\d{2}) at position i
IsYearAt(s, i) ==
    /\ <<At(s, i), At(s, i + 1)>> \in {<<"1", "9">>, <<"2", "0">>}
    /\ IsDigit(At(s, i + 2))
    /\ IsDigit(At(s, i + 3))

\* position after the optional [./_-]
SkipDateSep(s, j) == IF At(s, j) \in DateSeps THEN j + 1 ELSE j

\* _RX_DATE1 with the year at i, the month at j2 and the day at j4
Date1Groups(s, i, j2, j4) ==
    IF /\ IsYearAt(s, i)
       /\ IsMonth2(At(s, j2), At(s, j2 + 1))
       /\ IsDay2(At(s, j4), At(s, j4 + 1))
    THEN Slice(s, i, i + 4) \o Slice(s, j2, j2 + 2) \o Slice(s, j4, j4 + 2)
    ELSE NoMatch

Date1Month(s, i, j2) == Date1Groups(s, i, j2, SkipDateSep(s, j2 + 2))

\* _RX_DATE1 matched at position i: the digits of groups 1, 2, 3 joined, or NoMatch
RX_DATE1_At(s, i) == Date1Month(s, i, SkipDateSep(s, i + 4))

\* the one- or two-digit field that ends at the ideogram `stop`: its end, or 0
JPFieldEnd(s, j, stop) ==
    IF IsDigit(At(s, j)) /\ At(s, j + 1) = stop THEN j + 1
    ELSE IF IsDigit(At(s, j)) /\ IsDigit(At(s, j + 1)) /\ At(s, j + 2) = stop THEN j + 2
    ELSE 0

\* (0?[1-9]|1[0-2]) on the whole field f
IsMonthJP(f) == \/ Len(f) = 1 /\ f[1] # "0"
                \/ Len(f) = 2 /\ IsMonth2(f[1], f[2])

\* (0?[1-9]|[12]\d|3[01]) on the whole field f
IsDayJP(f) == \/ Len(f) = 1 /\ f[1] # "0"
              \/ Len(f) = 2 /\ IsDay2(f[1], f[2])

\* _RX_DATE_JP with the year at i, the month field ending at e1, the day field at e2
DateJPGroups(s, i, e1, e2) ==
    IF /\ IsYearAt(s, i)
       /\ At(s, i + 4) = "NEN"
       /\ e1 # 0
       /\ IsMonthJP(Slice(s, i + 5, e1))
       /\ e2 # 0
       /\ IsDayJP(Slice(s, e1 + 1, e2))
    THEN <<Slice(s, i, i + 4), Slice(s, i + 5, e1), Slice(s, e1 + 1, e2)>>
    ELSE NoMatch

DateJPMonth(s, i, e1) == DateJPGroups(s, i, e1, JPFieldEnd(s, e1 + 1, "NICHI"))

\* _RX_DATE_JP matched at position i: <<year digits, month digits, day digits>>, or NoMatch
RX_DATE_JP_At(s, i) == DateJPMonth(s, i, JPFieldEnd(s, i + 5, "GATSU"))

\* the end of the n-th dot-separated run of digits that starts at j (n >= 1), 0 when
\* there are fewer than n runs
RECURSIVE CompEnd(_, _, _)
CompNext(s, e, n) ==
    IF n = 1 THEN e
    ELSE IF At(s, e) = "." THEN CompEnd(s, e + 1, n - 1)
    ELSE 0

CompEnd(s, j, n) == IF RunLen(s, j) = 0 THEN 0 ELSE CompNext(s, j + RunLen(s, j), n)

\* (\d+(?:\.\d+){0,3})\b from position j: the end of the match, 0 when there is none.
\* The run of components is taken greedily; when no word boundary follows it the
\* engine gives back the last ".\d+" (a shorter run of digits never ends at a boundary).
SemverPick(s, j, nmax) ==
    IF nmax = 0 THEN 0
    ELSE IF Boundary(s, CompEnd(s, j, nmax)) THEN CompEnd(s, j, nmax)
    ELSE IF nmax >= 2 THEN CompEnd(s, j, nmax - 1)
    ELSE 0

\* the greatest member of a set of naturals, 0 for the empty set
Greatest(S) == IF S = {} THEN 0 ELSE CHOOSE n \in S : \A m \in S : m <= n

\* the least member of a non-empty set of naturals
Least(S) == CHOOSE n \in S : \A m \in S : n <= m

SemverEnd(s, j) == SemverPick(s, j, Greatest({n \in 1..4 : CompEnd(s, j, n) # 0}))

VerSeps == {"-", "_", " "}

\* position after the optional [-_ ]
SkipSep(s, j) == IF At(s, j) \in VerSeps THEN j + 1 ELSE j

\* _RX_SEMVER matched at position i: group 1, or NoMatch
\* the length of the alternative of (?:v|ver|version) the match goes through, 0 for none
SemverWord(s, i) ==
    IF LooksAt(s, i, <<"v">>) /\ SemverEnd(s, SkipSep(s, i + 1)) # 0 THEN 1
    ELSE IF LooksAt(s, i, <<"v", "e", "r">>) /\ SemverEnd(s, SkipSep(s, i + 3)) # 0 THEN 3
    ELSE IF LooksAt(s, i, <<"v", "e", "r", "s", "i", "o", "n">>)
            /\ SemverEnd(s, SkipSep(s, i + 7)) # 0 THEN 7
    ELSE 0

SemverGroup(s, i, word, j) ==
    IF Boundary(s, i) /\ word # 0 THEN Slice(s, j, SemverEnd(s, j)) ELSE NoMatch

SemverFrom(s, i, word) == SemverGroup(s, i, word, SkipSep(s, i + word))

RX_SEMVER_At(s, i) == SemverFrom(s, i, SemverWord(s, i))

\* (\d{1,3})\b from position j: the end of the match, 0 when there is none
RevRun(s, j, n) == IF n \in 1..3 /\ Boundary(s, j + n) THEN j + n ELSE 0

RevEnd(s, j) == RevRun(s, j, RunLen(s, j))

\* _RX_REV matched at position i: group 1, or NoMatch
\* the length of the alternative of (?:rev|r) the match goes through, 0 for none
RevWord(s, i) ==
    IF LooksAt(s, i, <<"r", "e", "v">>) /\ RevEnd(s, SkipSep(s, i + 3)) # 0 THEN 3
    ELSE IF LooksAt(s, i, <<"r">>) /\ RevEnd(s, SkipSep(s, i + 1)) # 0 THEN 1
    ELSE 0

RevGroup(s, i, word, j) ==
    IF Boundary(s, i) /\ word # 0 THEN Slice(s, j, RevEnd(s, j)) ELSE NoMatch

RevFrom(s, i, word) == RevGroup(s, i, word, SkipSep(s, i + word))

RX_REV_At(s, i) == RevFrom(s, i, RevWord(s, i))

\* pattern.search(name): the leftmost position where MatchAt gives a match
\* the pattern rx matched at position i
MatchAt(rx, s, i) ==
    CASE rx = "_RX_DATE1" -> RX_DATE1_At(s, i)
      [] rx = "_RX_DATE_JP" -> RX_DATE_JP_At(s, i)
      [] rx = "_RX_SEMVER" -> RX_SEMVER_At(s, i)
      [] rx = "_RX_REV" -> RX_REV_At(s, i)

SearchIn(rx, s, hits) == IF hits = {} THEN NoMatch ELSE MatchAt(rx, s, Least(hits))

Search(rx, s) == SearchIn(rx, s, {i \in 1..Len(s) : MatchAt(rx, s, i) # NoMatch})

\* v.split(".")
RECURSIVE SplitDots(_)
SplitDots(v) ==
    LET dots == {i \in 1..Len(v) : v[i] = "."}
    IN  IF dots = {} THEN <<v>>
        ELSE LET d == CHOOSE i \in dots : \A h \in dots : i <= h
             IN  <<Slice(v, 1, d)>> \o SplitDots(Slice(v, d + 1, Len(v) + 1))

\* p.isdigit()
IsDigitStr(p) == p # <<>> /\ \A i \in 1..Len(p) : IsDigit(p[i])

_semver_tuple(v) ==
    LET parts == SplitDots(v)
        nums == [i \in 1..Len(parts) |-> IF IsDigitStr(parts[i]) THEN IntOf(parts[i]) ELSE 0]
    IN  [i \in 1..4 |-> IF i <= Len(nums) THEN nums[i] ELSE 0]

\* the decimal digits of n >= 0
RECURSIVE DecDigits(_)
DecDigits(n) == IF n < 10 THEN <<DigitChar(n)>> ELSE DecDigits(n \div 10) \o <<DigitChar(n % 10)>>

Zeros(k) == [i \in 1..k |-> "0"]

\* format(n, "0<w>d"): at least w characters, the sign first
FmtD(n, w) ==
    LET ds == DecDigits(IF n < 0 THEN -n ELSE n)
        sign == IF n < 0 THEN <<"-">> ELSE <<>>
        pad == w - Len(ds) - Len(sign)
    IN  sign \o Zeros(IF pad > 0 THEN pad ELSE 0) \o ds

\* mtimes are counted in ticks of 1/TicksPerSecond s; int() truncates toward zero
TicksPerSecond == 2

IntTrunc(ticks) == IF ticks >= 0 THEN ticks \div TicksPerSecond ELSE -((-ticks) \div TicksPerSecond)

\* the priority tier of lines 54-63
Priority(date_int, semver, rev) ==
    IF date_int # 0 THEN 3
    ELSE IF semver # <<0, 0, 0, 0>> THEN 2
    ELSE IF rev # 0 THEN 1
    ELSE 0

\* lines 33-44: the date as an integer, 0 for none
DateInt(m, mj) ==
    IF m # NoMatch THEN IntOf(m)
    ELSE IF mj # NoMatch THEN IntOf(mj[1] \o FmtD(IntOf(mj[2]), 2) \o FmtD(IntOf(mj[3]), 2))
    ELSE 0

\* lines 46-48
SemverOf(ms) == IF ms # NoMatch THEN _semver_tuple(ms) ELSE <<0, 0, 0, 0>>

\* lines 50-51
RevOf(mr) == IF mr # NoMatch THEN IntOf(mr) ELSE 0

\* lines 65-66
FormatKey(pr, date_int, semver, rev, mtime_int) ==
    <<"P">> \o FmtD(pr, 1) \o <<"-", "D">> \o FmtD(date_int, 8) \o <<"-", "V">>
        \o FmtD(semver[1], 3) \o FmtD(semver[2], 3) \o FmtD(semver[3], 3) \o FmtD(semver[4], 3)
        \o <<"-", "R">> \o FmtD(rev, 3) \o <<"-", "M">> \o FmtD(mtime_int, 10)

KeyOf(date_int, semver, rev, mtime_int) ==
    FormatKey(Priority(date_int, semver, rev), date_int, semver, rev, mtime_int)

infer_version_key(filename, mtime_epoch) ==
    KeyOf(DateInt(Search("_RX_DATE1", filename), Search("_RX_DATE_JP", filename)),
          SemverOf(Search("_RX_SEMVER", filename)),
          RevOf(Search("_RX_REV", filename)),
          IntTrunc(mtime_epoch))

\* ord(c)
Ord(c) ==
    CASE c \in Digits -> 48 + DigitVal(c)
      [] c \in UpperLetters -> 64 + (CHOOSE i \in 1..26 : UpperSeq[i] = c)
      [] c \in LowerLetters -> 96 + (CHOOSE i \in 1..26 : LowerSeq[i] = c)
      [] c = "NUL" -> 0 [] c = "BEL" -> 7 [] c = "BS" -> 8 [] c = "TAB" -> 9 [] c = "LF" -> 10
      [] c = "VT" -> 11 [] c = "FF" -> 12 [] c = "CR" -> 13
      [] c = " " -> 32 [] c = "-" -> 45 [] c = "." -> 46 [] c = "/" -> 47 [] c = ":" -> 58
      [] c = "\\" -> 92 [] c = "_" -> 95
      [] c = "NICHI" -> 26085 [] c = "GATSU" -> 26376 [] c = "NEN" -> 24180

\* a < b as Python compares str, from the i-th character on: by code point, a proper
\* prefix first
RECURSIVE StrLessFrom(_, _, _)
StrLessFrom(a, b, i) ==
    IF i > Len(b) THEN FALSE
    ELSE IF i > Len(a) THEN TRUE
    ELSE IF a[i] = b[i] THEN StrLessFrom(a, b, i + 1)
    ELSE Ord(a[i]) < Ord(b[i])

StrLess(a, b) == StrLessFrom(a, b, 1)

(***************************************************************************)
(* scan_kb.py: main(), its helpers.                                        *)
(***************************************************************************)
\* sorted(S) for a set of strings
RECURSIVE SortedStrings(_)
SortedStrings(S) ==
    IF S = {} THEN <<>>
    ELSE LET m == CHOOSE x \in S : \A y \in S \ {x} : StrLess(x, y)
         IN  <<m>> \o SortedStrings(S \ {m})

\* Path.stem
PathStem(p) == SubSeq(Name(p), 1, Len(Name(p)) - Len(Suffix(p)))

\* Path(a).stem for a path given as a string
StrStem(a) ==
    LET seps == {i \in 1..Len(a) : a[i] \in {"\\", "/"}}
        last == IF seps = {} THEN 0 ELSE CHOOSE i \in seps : \A j \in seps : j <= i
    IN  PathStem(<<SubSeq(a, last + 1, Len(a))>>)

\* Path.relative_to(r): the parts below r, compared as Windows paths are
RelativeTo(p, r) ==
    IF IsUnder(p, r) THEN [ok |-> TRUE, parts |-> SubSeq(p, Len(r) + 1, Len(p))]
    ELSE [ok |-> FALSE, parts |-> <<>>]

safe_relpath(path, roots) ==
    LET hits == {i \in 1..Len(roots) : RelativeTo(path, roots[i]).ok}
    IN  IF hits = {} THEN PathStr(path)
        ELSE PathStr(RelativeTo(path, roots[CHOOSE i \in hits : \A h \in hits : i <= h]).parts)

\* the first root the file lies under with enough parts below it decides
infer_system(file_path, roots, sys_cfg) ==
    LET depth == sys_cfg.depth_from_root
        hits == {i \in 1..Len(roots) :
                    /\ RelativeTo(file_path, roots[i]).ok
                    /\ Len(RelativeTo(file_path, roots[i]).parts) >= depth}
    IN  IF ~sys_cfg.enabled \/ hits = {} THEN NoneVal
        ELSE RelativeTo(file_path, roots[CHOOSE i \in hits : \A h \in hits : i <= h]).parts[depth]

\* the modelled configurations give no pattern (screen_id_regex defaults to [])
infer_screen_id(text, regex_list) == NoneVal

infer_doc_type(text, rules) ==
    LET t == LowerStr(text)
        hits == {i \in 1..Len(rules) :
                    \E j \in 1..Len(rules[i].contains_any) : Contains(t, LowerStr(rules[i].contains_any[j]))}
    IN  IF hits = {} THEN NoneVal ELSE rules[CHOOSE i \in hits : \A h \in hits : i <= h].doc_type

\* the class of characters a token of _tokens is a run of, and the least length of the run
TokenClass(c) ==
    IF c \in Ideograms THEN 1 ELSE IF c \in AsciiLetters THEN 2 ELSE IF c \in Digits THEN 3 ELSE 0

TokenMin(cls) == IF cls = 2 THEN 3 ELSE 2

\* summarizer._tokens: re.findall of the three runs, lower-cased
RECURSIVE TokensFrom(_, _)
TokensFrom(s, i) ==
    IF i > Len(s) THEN <<>>
    ELSE LET cls == TokenClass(s[i])
             n == CHOOSE m \in 1..(Len(s) - i + 1) :
                      /\ \A t \in 0..(m - 1) : TokenClass(s[i + t]) = cls
                      /\ (i + m > Len(s) \/ TokenClass(s[i + m]) # cls)
         IN  IF cls # 0 /\ n >= TokenMin(cls)
             THEN <<LowerStr(SubSeq(s, i, i + n - 1))>> \o TokensFrom(s, i + n)
             ELSE TokensFrom(s, i + n)

_tokens(text) == TokensFrom(text, 1)

\* summarizer.extract_keywords: the tokens longer than two characters, the most
\* frequent first, then the longest, then the one met first
RECURSIVE RankKeywords(_, _)
RankKeywords(toks, left) ==
    IF left = {} THEN <<>>
    ELSE LET count(w) == Cardinality({i \in 1..Len(toks) : toks[i] = w})
             first(w) == CHOOSE i \in 1..Len(toks) : toks[i] = w /\ \A j \in 1..(i - 1) : toks[j] # w
             better(a, b) ==
                 \/ count(a) > count(b)
                 \/ count(a) = count(b) /\ Len(a) > Len(b)
                 \/ count(a) = count(b) /\ Len(a) = Len(b) /\ first(a) < first(b)
             top == CHOOSE w \in left : \A v \in left \ {w} : better(w, v)
         IN  <<top>> \o RankKeywords(toks, left \ {top})

extract_keywords(text, topk) ==
    LET toks == SelectSeq(_tokens(text), LAMBDA w : Len(w) > 2)
        ranked == RankKeywords(toks, {toks[i] : i \in 1..Len(toks)})
    IN  SubSeq(ranked, 1, IF Len(ranked) < topk THEN Len(ranked) ELSE topk)

\* summarizer.make_extract_summary: a sentence has 10 characters at least (line 24),
\* and no preview of the model is that long
make_extract_summary(text) == <<>>

\* extractors.extract_text_and_outline: the preview spells the content read
extract_text_and_outline(content) == [headings |-> <<>>, preview |-> <<"p", DigitChar(content)>>]

\* hashlib.sha1 over the bytes read
sha1_file(content) == <<"h", DigitChar(content)>>

\* hashlib.sha1(k).hexdigest()[:16]: one id for one key
DocIdOf(k) == [sha1_16 |-> k]

\* datetime.fromtimestamp(mtime).isoformat(timespec="seconds"), for the first minute
IsoSeconds(ticks) ==
    <<"1", "9", "7", "0", "-", "0", "1", "-", "0", "1", "T", "0", "0", ":", "0", "0", ":">>
        \o FmtD(IntTrunc(ticks), 2)

\* "\n".join(names), with "LF" for the newline
RECURSIVE JoinLines(_)
JoinLines(ss) ==
    IF ss = <<>> THEN <<>>
    ELSE IF Len(ss) = 1 THEN ss[1]
    ELSE ss[1] \o <<"LF">> \o JoinLines(Tail(ss))

\* the file on disk the spelling p names, as Path.stat() finds it
HasStat(p) == \E f \in RegularFiles : tree[f].present /\ NormCase(f) = NormCase(p)

Stat(p) == tree[CHOOSE f \in RegularFiles : tree[f].present /\ NormCase(f) = NormCase(p)]

\* load_state(state_path).get("files", {})
load_state == IF state_file.exists THEN state_file.files ELSE <<>>

\* line 465: the entry under the key, else under the path as spelled
HasPrevEnt(prev, k, p) == k \in DOMAIN prev \/ p \in DOMAIN prev

PrevEnt(prev, k, p) == IF k \in DOMAIN prev THEN prev[k] ELSE prev[p]

\* Unchanged gone wrong: the size is not compared
Unchanged_mtime_only(prev, k, p, st) ==
    HasPrevEnt(prev, k, p) /\ PrevEnt(prev, k, p).mtime = st.mtime

\* line 466: the quick change detection
Unchanged(prev, k, p, st) ==
    /\ HasPrevEnt(prev, k, p)
    /\ PrevEnt(prev, k, p).mtime = st.mtime
    /\ PrevEnt(prev, k, p).size = st.size

\* lines 444-451: the first spelling of every target, in the order met
RECURSIVE UniqueTargets(_, _)
UniqueTargets(its, seen) ==
    IF its = <<>> THEN <<>>
    ELSE IF _norm_key(its[1].path) \in seen THEN UniqueTargets(Tail(its), seen)
    ELSE <<[k |-> _norm_key(its[1].path), p |-> its[1].path]>>
             \o UniqueTargets(Tail(its), seen \cup {_norm_key(its[1].path)})

\* sorted(set(alias_map.get(k, [])))
AliasesOf(its, k) ==
    SortedStrings({PathStr(its[i].alias_from) :
                      i \in {j \in 1..Len(its) : _norm_key(its[j].path) = k /\ its[j].alias_from # NoPath}})

\* d[k] = v on a dict
Put(d, k, v) == [x \in DOMAIN d \cup {k} |-> IF x = k THEN v ELSE d[x]]

\* StateEntry gone wrong: the entry names no artifact
StateEntry_noid(st, sha1, doc_id, p) ==
    [mtime |-> st.mtime, size |-> st.size, sha1 |-> sha1, doc_id |-> [sha1_16 |-> <<>>],
     path |-> PathStr(p)]

StateEntry(st, sha1, doc_id, p) ==
    [mtime |-> st.mtime, size |-> st.size, sha1 |-> sha1, doc_id |-> doc_id, path |-> PathStr(p)]

\* lines 484-505: the record read back from the artifact on the skip path
SkipRecord(fm, k, p, st, prev_ent, doc_id, aliases) ==
    [doc_id |-> IF fm.ok THEN fm.data.doc_id ELSE doc_id,
     title |-> IF fm.ok THEN fm.data.title ELSE PathStem(p),
     path |-> IF fm.ok THEN fm.data.path ELSE PathStr(p),
     rel_path |-> IF fm.ok THEN fm.data.rel_path ELSE safe_relpath(p, cfg.roots),
     ext |-> IF fm.ok THEN fm.data.ext ELSE LowerStr(Suffix(p)),
     size_bytes |-> IF fm.ok THEN fm.data.size_bytes ELSE st.size,
     updated_at |-> IF fm.ok THEN fm.data.updated_at ELSE IsoSeconds(st.mtime),
     mtime_epoch |-> st.mtime,
     sha1 |-> IF fm.ok THEN fm.data.sha1 ELSE prev_ent.sha1,
     system |-> IF fm.ok THEN fm.data.system ELSE NoneVal,
     screen_id |-> IF fm.ok THEN fm.data.screen_id ELSE NoneVal,
     doc_type |-> IF fm.ok THEN fm.data.doc_type ELSE NoneVal,
     version_key |-> IF fm.ok THEN fm.data.version_key ELSE infer_version_key(Name(p), st.mtime),
     headings |-> <<>>, preview |-> <<>>, summary |-> <<>>,
     keywords |-> IF fm.ok THEN fm.data.keywords ELSE <<>>,
     aliases |-> IF aliases # <<>> THEN aliases ELSE IF fm.ok THEN fm.data.aliases ELSE <<>>]

\* lines 519-570: the record built on the reprocess path
FreshRecord(k, p, st, aliases) ==
    LET extracted == extract_text_and_outline(st.content)
        title == PathStem(p)
        alias_names == [i \in 1..Len(aliases) |-> StrStem(aliases[i])]
        classify_text == title \o <<"LF">> \o JoinLines(alias_names) \o <<"LF">> \o extracted.preview
    IN  [doc_id |-> DocIdOf(k), title |-> title, path |-> PathStr(p),
         rel_path |-> safe_relpath(p, cfg.roots), ext |-> LowerStr(Suffix(p)),
         size_bytes |-> st.size, updated_at |-> IsoSeconds(st.mtime), mtime_epoch |-> st.mtime,
         sha1 |-> sha1_file(st.content),
         system |-> infer_system(p, cfg.roots, cfg.system_from_path),
         screen_id |-> infer_screen_id(classify_text, cfg.screen_id_regex),
         doc_type |-> infer_doc_type(classify_text, cfg.doc_type_rules),
         version_key |-> infer_version_key(Name(p), st.mtime),
         headings |-> extracted.headings, preview |-> extracted.preview,
         summary |-> make_extract_summary(extracted.preview),
         keywords |-> extract_keywords(classify_text, cfg.keywords_topk),
         aliases |-> aliases]

\* the group a record falls into (lines 362-376), <<>> when it falls into none
NoScreen == <<"_", "_", "N", "O", "_", "S", "C", "R", "E", "E", "N", "_", "_">>

NoType == <<"_", "_", "N", "O", "_", "T", "Y", "P", "E", "_", "_">>

NoSystem == <<"_", "_", "N", "O", "_", "S", "Y", "S", "T", "E", "M", "_", "_">>

GroupKey(d, allow_fallback) ==
    LET system == OrEmpty(d.system)
        screen == OrEmpty(d.screen_id)
        dtype == OrEmpty(d.doc_type)
    IN  IF system # <<>> /\ screen # <<>> /\ dtype # <<>> THEN <<system, screen, dtype>>
        ELSE IF ~allow_fallback THEN <<>>
        ELSE IF system # <<>> /\ dtype # <<>> THEN <<system, NoScreen, dtype>>
        ELSE IF system # <<>> THEN <<system, NoScreen, NoType>>
        ELSE <<NoSystem, NoScreen, NoType>>

\* a < b for tuples of strings
TupleLess(a, b) ==
    \E i \in 1..Len(a) : (\A t \in 1..(i - 1) : a[t] = b[t]) /\ StrLess(a[i], b[i])

RECURSIVE SortedKeys(_)
SortedKeys(S) ==
    IF S = {} THEN <<>>
    ELSE LET m == CHOOSE x \in S : \A y \in S \ {x} : TupleLess(x, y)
         IN  <<m>> \o SortedKeys(S \ {m})

\* pick_latest gone wrong: the first record, whatever its version key
pick_latest_first(ds) == ds[1]

\* lines 379-381: the greatest (version_key, mtime_epoch); of equal ones the first
pick_latest(ds) ==
    LET above(a, b) ==
            \/ StrLess(b.version_key, a.version_key)
            \/ a.version_key = b.version_key /\ a.mtime_epoch > b.mtime_epoch
        best == {i \in 1..Len(ds) : \A j \in 1..Len(ds) : ~above(ds[j], ds[i])}
    IN  ds[CHOOSE i \in best : \A j \in best : i <= j]

\* the lines written for one group (lines 389-393)
LatestEntry(k, latest) ==
    <<<<"## ">> \o k[1] \o <<" / ">> \o k[2] \o <<" / ">> \o k[3],
      <<"- latest_title: ">> \o latest.title,
      <<"- latest_path: ">> \o latest.path,
      <<"- updated_at: ">> \o latest.updated_at,
      <<"- version_key: ">> \o latest.version_key,
      Blank>>

RECURSIVE LatestEntries(_, _, _)
LatestEntries(keys, docs, allow_fallback) ==
    IF keys = <<>> THEN <<>>
    ELSE LatestEntry(keys[1], pick_latest(SelectSeq(docs, LAMBDA d : GroupKey(d, allow_fallback) = keys[1])))
             \o LatestEntries(Tail(keys), docs, allow_fallback)

\* the text written to latest_map.md; the last line has no newline after it
write_latest_map(docs, allow_fallback) ==
    LET keys == SortedKeys({GroupKey(docs[i], allow_fallback) : i \in 1..Len(docs)} \ {<<>>})
        ls == <<<<"# latest_map (PoC)">>, Blank, <<"(note)">>, Blank>>
                  \o LatestEntries(keys, docs, allow_fallback)
    IN  [exists |-> TRUE, lines |-> SubSeq(ls, 1, Len(ls) - 1)]

\* the output directory and main() before the first run
NoStateFile == [exists |-> FALSE, generated_at |-> 0, files |-> <<>>]

NoLatestMap == [exists |-> FALSE, lines |-> <<>>]

NoSummary == [status |-> "none", dry_run |-> FALSE, clean |-> FALSE, docs |-> <<>>, log |-> <<>>]

NoRun ==
    [status |-> "none", dry_run |-> FALSE, prev |-> <<>>, items |-> <<>>, targets |-> <<>>,
     i |-> 1, docs |-> <<>>, new_state_files |-> <<>>, log |-> <<>>,
     start |-> [state_file |-> NoStateFile, artifacts |-> <<>>, latest_map |-> NoLatestMap],
     clean |-> FALSE, at |-> "idle", before |-> NoSummary]

\* what is remembered of the run before: its end, its records, and per target the
\* decision and the aliases
Summary(rn) ==
    [status |-> rn.status, dry_run |-> rn.dry_run, clean |-> rn.clean, docs |-> rn.docs,
     log |-> [i \in 1..Len(rn.log) |->
                 [k |-> rn.log[i].k, decision |-> rn.log[i].decision, aliases |-> rn.log[i].aliases]]]

PipelineIdle ==
    /\ state_file = NoStateFile
    /\ artifacts = <<>>
    /\ latest_map = NoLatestMap
    /\ pc = "idle"
    /\ run = NoRun
    /\ used = [runs |-> 0, changes |-> 0]

(***************************************************************************)
(* SpecDiscovery: iter_files, one round of its loop per step, over the     *)
(* trees and configurations below.                                         *)
(***************************************************************************)
\* the greatest max_chain a configuration is drawn with
MaxChain == 2

AllFilesPresent == [f \in RegularFiles |-> [present |-> TRUE, mtime |-> 0, size |-> 1, content |-> 0]]

Shortcut(target) == [present |-> TRUE, target |-> target]

NoShortcut == [present |-> FALSE, target |-> NoPath]

NoExclusion == [exclude_dirs |-> {}, exclude_dir_keywords |-> {}, exclude_path_regex |-> {}]

Exclusions ==
    {[NoExclusion EXCEPT !.exclude_dirs = {<<"S", "u", "b">>}],
     [NoExclusion EXCEPT !.exclude_dir_keywords = {<<>>, <<"U">>}],
     [NoExclusion EXCEPT !.exclude_path_regex = {<<"b", ".">>}],
     [NoExclusion EXCEPT !.exclude_path_regex = {<<"s", "u", "b">>}]}

Config(roots, ext, sc, ex) ==
    [roots |-> roots, include_ext |-> ext, shortcuts |-> sc,
     exclude_dirs |-> ex.exclude_dirs,
     exclude_dir_keywords |-> ex.exclude_dir_keywords,
     exclude_path_regex |-> ex.exclude_path_regex]

ShortcutCfgs ==
    [enabled : BOOLEAN, follow_dir_targets : BOOLEAN, allow_outside_roots : BOOLEAN,
     max_chain : 0..MaxChain]

RootChoices == {<<R>>, <<R, SUB>>, <<SUB, R>>, <<R, R>>, <<GONE, R>>}

DiscoveryConfigs ==
    {Config(r, e, sc, NoExclusion) :
        r \in RootChoices, e \in {{DotDocx}, {DotDocx, DotLnk}}, sc \in ShortcutCfgs}
    \cup
    {Config(<<R>>, {<<".", "D", "O", "C", "X">>}, sc, ex) :
        sc \in {c \in ShortcutCfgs : c.enabled /\ c.follow_dir_targets /\ c.max_chain = MaxChain},
        ex \in Exclusions}

DiscoveryLinks ==
    {[l \in LinkFiles |->
         IF l = L1 THEN Shortcut(t1)
         ELSE IF l = L2 THEN Shortcut(t2)
         ELSE IF l = L3 THEN Shortcut(t3)
         ELSE NoShortcut] :
        t1 \in {L2, OUT, FC, SUB, NoPath},
        t2 \in {L3, R, SUB_upper, FC, NoPath},
        t3 \in {FC, L1, GONE}}

SetDisc(st) ==
    /\ queue' = st.queue
    /\ visited_dirs' = st.visited_dirs
    /\ items' = st.items
    /\ walk_log' = st.walk_log
    /\ enum_log' = st.enum_log
    /\ push_log' = st.push_log

DiscIdle ==
    /\ queue = <<>>
    /\ visited_dirs = {}
    /\ items = <<>>
    /\ walk_log = <<>>
    /\ enum_log = <<>>
    /\ push_log = <<>>

CallIdle == call_in = <<>> /\ call_out = <<>>

VersionIdle == ver_in = <<>> /\ ver_out = <<>> /\ CallIdle

InitDiscovery ==
    /\ cfg \in DiscoveryConfigs
    /\ tree = AllFilesPresent
    /\ links \in DiscoveryLinks
    /\ queue = cfg.roots
    /\ visited_dirs = {}
    /\ items = <<>>
    /\ walk_log = <<>>
    /\ enum_log = <<>>
    /\ push_log = <<>>
    /\ VersionIdle
    /\ PipelineIdle

\* lines 180-182: the directory popped does not exist
PopMissing ==
    /\ queue # <<>>
    /\ ~Exists(Head(queue))
    /\ SetDisc(iter_round(DiscState))
    /\ UNCHANGED <<fsvars, vvars, pvars>>

\* lines 184-186: the directory popped was walked from before
PopVisited ==
    /\ queue # <<>>
    /\ Exists(Head(queue))
    /\ AlreadyVisited(DiscState, Head(queue))
    /\ SetDisc(iter_round(DiscState))
    /\ UNCHANGED <<fsvars, vvars, pvars>>

\* lines 187-245: the directory popped is walked
WalkRoot ==
    /\ queue # <<>>
    /\ Exists(Head(queue))
    /\ ~AlreadyVisited(DiscState, Head(queue))
    /\ SetDisc(iter_round(DiscState))
    /\ UNCHANGED <<fsvars, vvars, pvars>>

NextDiscovery == PopMissing \/ PopVisited \/ WalkRoot

SpecDiscovery == InitDiscovery /\ [][NextDiscovery]_vars

(***************************************************************************)
(* Discovery: the claims.                                                  *)
(***************************************************************************)
InsideRoots(p) == \E i \in 1..Len(cfg.roots) : IsUnder(p, cfg.roots[i])

Occurrences(sq, Test(_)) == Cardinality({i \in 1..Len(sq) : Test(sq[i])})

\* the shortcut files of the directories listed so far that the path patterns let through
ListedShortcuts ==
    {l \in LinkFiles :
        /\ links[l].present
        /\ \E j \in 1..Len(enum_log) : NormCase(enum_log[j]) = NormCase(Parent(l))
        /\ ~RegexExcluded(l)}

\* the target the shortcut resolves to under the configured hop limit
Resolved(l) == _resolve_lnk_chain_windows(l, cfg.shortcuts.max_chain)

YieldedVia(t, l) == \E i \in 1..Len(items) : NormCase(items[i].path) = NormCase(t) /\ items[i].alias_from = l

\* C7: with the outside-roots policy off, no candidate (through a shortcut or
\* otherwise) and no directory queued through a shortcut lies outside every root;
\* with the policy on, a listed shortcut that resolves to an existing file outside
\* the roots with an allowed extension yields that file with the shortcut as alias.
C7_Containment ==
    /\ ~cfg.shortcuts.allow_outside_roots =>
          /\ \A i \in 1..Len(items) : InsideRoots(items[i].path)
          /\ \A i \in 1..Len(push_log) : InsideRoots(push_log[i])
    /\ (cfg.shortcuts.allow_outside_roots /\ cfg.shortcuts.enabled) =>
          \A l \in ListedShortcuts :
              (/\ Resolved(l) # NoPath
               /\ IsFile(Resolved(l))
               /\ ~InsideRoots(Resolved(l))
               /\ LowerStr(Suffix(Resolved(l))) \in {LowerStr(e) : e \in cfg.include_ext})
              => YieldedVia(Resolved(l), l)

\* C7 witness: discovery is over, the policy is off and a listed shortcut resolved to
\* an existing document outside the roots (and was turned away)
C7_Witness ==
    /\ queue = <<>>
    /\ cfg.shortcuts.enabled
    /\ ~cfg.shortcuts.allow_outside_roots
    /\ \E l \in ListedShortcuts :
          /\ Resolved(l) # NoPath
          /\ IsFile(Resolved(l))
          /\ ~InsideRoots(Resolved(l))
          /\ Suffix(Resolved(l)) = DotDocx
          /\ ~YieldedVia(Resolved(l), l)
    /\ \E i \in 1..Len(items) : items[i].alias_from # NoPath

Unreachable == Cardinality(LinkFiles) + 2

\* the number of hops from p to a path that is no shortcut, following Targetpaths
RECURSIVE HopsNeeded(_, _)
HopsNeeded(p, fuel) ==
    IF LowerStr(Suffix(p)) # DotLnk THEN 0
    ELSE IF fuel = 0 \/ _resolve_lnk_windows(p) = NoPath THEN Unreachable
    ELSE LET rest == HopsNeeded(_resolve_lnk_windows(p), fuel - 1)
         IN  IF rest = Unreachable THEN Unreachable ELSE rest + 1

\* the path that is no shortcut at the end of the chain that starts at p
RECURSIVE ConcreteTarget(_, _)
ConcreteTarget(p, fuel) ==
    IF LowerStr(Suffix(p)) # DotLnk \/ fuel = 0 THEN p
    ELSE ConcreteTarget(_resolve_lnk_windows(p), fuel - 1)

\* the hop limit in force: the configured max_chain, at least 1
HopLimit == IF cfg.shortcuts.max_chain > 1 THEN cfg.shortcuts.max_chain ELSE 1

\* C8: for every shortcut that discovery has come upon, a chain that needs more hops
\* than the limit, or has an unresolvable hop, resolves to nothing and yields no
\* candidate; a chain within the limit resolves to the concrete path at its end.
C8_ChainBound ==
    cfg.shortcuts.enabled =>
        \A l \in ListedShortcuts :
            LET h == HopsNeeded(l, Cardinality(LinkFiles) + 1)
            IN  /\ h > HopLimit =>
                    /\ Resolved(l) = NoPath
                    /\ \A i \in 1..Len(items) : items[i].alias_from # l
                /\ h <= HopLimit => Resolved(l) = ConcreteTarget(l, Cardinality(LinkFiles) + 1)

\* how often directory d had its entries listed, how often file f came as a direct candidate
EnumCount(d) == Occurrences(enum_log, LAMBDA e : NormCase(e) = NormCase(d))

DirectCount(f) ==
    Occurrences(items, LAMBDA it : it.alias_from = NoPath /\ NormCase(it.path) = NormCase(f))

\* C9 as claimed: every directory is listed at most once in a run and every regular
\* file comes as a direct candidate at most once.
C9_VisitOnce ==
    /\ \A d \in Dirs : EnumCount(d) <= 1
    /\ \A f \in RegularFiles \cup LinkFiles : DirectCount(f) <= 1

\* the walks that started at or above directory d
WalksOver(d) == {i \in 1..Len(walk_log) : IsUnder(d, walk_log[i])}

\* C9 as amended: no directory is the start of two walks in a run, and a directory is
\* listed at most once for every walk that started at or above it (so a directory
\* below one walk start that is itself a root or a shortcut target is listed again,
\* and its files are yielded again).
C9_WalkStartOnce ==
    /\ \A i, j \in 1..Len(walk_log) : i # j => _norm_key(walk_log[i]) # _norm_key(walk_log[j])
    /\ \A d \in Dirs : EnumCount(d) <= Cardinality(WalksOver(d))
    /\ \A f \in RegularFiles \cup LinkFiles : DirectCount(f) <= Cardinality(WalksOver(Parent(f)))

\* C9 witness: discovery is over; a shortcut led back to a directory walked from
\* before, which was not walked again, while a directory below a walk start was
\* walked a second time on its own
C9_Witness ==
    /\ queue = <<>>
    /\ \E i \in 1..Len(push_log) :
          Occurrences(walk_log, LAMBDA w : _norm_key(w) = _norm_key(push_log[i])) = 1
          /\ Len(walk_log) < Len(push_log) + Len(cfg.roots)
    /\ \E d \in Dirs : EnumCount(d) = 2

\* iter_files is a loop of straight-line code that list() in main() (line 442) runs to
\* its end: a round that can be taken is taken in the end.  This is weak fairness of
\* NextDiscovery, written out: a round can be taken exactly when the queue is not
\* empty (the guards of the three rounds cover that case), and every round changes
\* the queue or adds to visited_dirs.
FairRounds == []<>(queue = <<>>) \/ []<><<NextDiscovery>>_vars

SpecDiscoveryFair == SpecDiscovery /\ FairRounds

\* C15: whatever the shortcuts point at, directories walked before and each other
\* included, the work queue becomes empty in the end and stays so, and with it the
\* sequence of items yielded stops growing.
C15_Terminates == <>[](queue = <<>>)

\* the queue is empty after a shortcut below a root pointed back at that root, and the
\* root was walked from once
C15_Witness ==
    /\ queue = <<>>
    /\ \E i \in 1..Len(push_log) :
          /\ \E j \in 1..Len(cfg.roots) : _norm_key(push_log[i]) = _norm_key(cfg.roots[j])
          /\ Occurrences(walk_log, LAMBDA w : _norm_key(w) = _norm_key(push_log[i])) = 1

(***************************************************************************)
(* SpecVersion: infer_version_key on pairs of file names.  A file name is  *)
(* a stem, then optionally a version tag, a revision tag and a date, each  *)
(* introduced by the separator, then the extension.                        *)
(***************************************************************************)
Stem == <<"S", "p", "e", "c">>

Ext == <<".", "d", "o", "c", "x">>

NameSeps == {"_", " "}

SemTags == {<<>>, <<"v", "0">>, <<"v", "2", ".", "1">>, <<"V", "3">>}

RevTags == {<<>>, <<"r", "5">>, <<"r", "0">>}

DateTags == {<<>>,
             <<"2", "0", "2", "4", "-", "0", "3", "-", "0", "1">>,
             <<"2", "0", "2", "4", "NEN", "3", "GATSU", "1", "NICHI">>}

NameChoices == [sep : NameSeps, sem : SemTags, rev : RevTags, date : DateTags]

Tagged(sep, tag) == IF tag = <<>> THEN <<>> ELSE <<sep>> \o tag

\* the file name a choice of tags spells
BuildName(c) == Stem \o Tagged(c.sep, c.sem) \o Tagged(c.sep, c.rev) \o Tagged(c.sep, c.date) \o Ext

\* mtimes drawn for the version keys, in ticks: a fraction of a second, and the latest
MaxVerTicks == 2

VerTicks == {1, MaxVerTicks}

InitVersion ==
    /\ cfg = Config(<<R>>, {DotDocx}, [enabled |-> FALSE, follow_dir_targets |-> TRUE,
                                       allow_outside_roots |-> FALSE, max_chain |-> 2], NoExclusion)
    /\ tree = AllFilesPresent
    /\ links = [l \in LinkFiles |-> NoShortcut]
    /\ DiscIdle
    /\ ver_in \in [c1 : NameChoices, m1 : VerTicks, c2 : NameChoices, m2 : VerTicks]
    /\ ver_out = <<>>
    /\ CallIdle
    /\ PipelineIdle

\* the two calls of infer_version_key
InferKeys ==
    /\ ver_in # <<>>
    /\ ver_out = <<>>
    /\ ver_out' = <<infer_version_key(BuildName(ver_in.c1), ver_in.m1),
                   infer_version_key(BuildName(ver_in.c2), ver_in.m2)>>
    /\ UNCHANGED <<ver_in, call_in, call_out, fsvars, dvars, pvars>>

NextVersion == InferKeys

SpecVersion == InitVersion /\ [][NextVersion]_vars

\* the marker a file name carries that ranks highest: 3 date, 2 version, 1 revision, 0 none
Tier(c) ==
    IF c.date # <<>> THEN 3
    ELSE IF c.sem # <<>> THEN 2
    ELSE IF c.rev # <<>> THEN 1
    ELSE 0

\* 'Spec_v2.1_2024-03-01.docx' and 'Spec_r5.docx'
ScenarioDated == [sep |-> "_", sem |-> <<"v", "2", ".", "1">>, rev |-> <<>>,
                  date |-> <<"2", "0", "2", "4", "-", "0", "3", "-", "0", "1">>]

ScenarioRevised == [sep |-> "_", sem |-> <<>>, rev |-> <<"r", "5">>, date |-> <<>>]

\* C10: a file name whose highest marker is of a higher tier (date > version >
\* revision > none) has the greater key, whatever the two modification times.
C10_TierOrdering ==
    ver_out # <<>> =>
        (Tier(ver_in.c1) > Tier(ver_in.c2) => StrLess(ver_out[2], ver_out[1]))

(***************************************************************************)
(* SpecEncoding: infer_version_key on pairs of file names whose markers    *)
(* are all recognised, with dates a day apart, version components of one,  *)
(* three and four digits, and mtimes that differ in their whole seconds.   *)
(***************************************************************************)
EncSemTags == {<<>>, <<"v", "2", ".", "1">>, <<"v", "2", "0", "0">>, <<"v", "1", "0", "0", "0">>}

EncRevTags == {<<>>, <<"r", "5">>}

EncDateTags == {<<>>,
                <<"2", "0", "2", "4", "-", "0", "3", "-", "0", "1">>,
                <<"2", "0", "2", "4", "-", "0", "3", "-", "0", "2">>}

EncChoices == [sep : {" "}, sem : EncSemTags, rev : EncRevTags, date : EncDateTags]

\* mtimes drawn, in ticks: within the first second, and up to the latest
MaxEncTicks == 5

EncTicks == {1, MaxEncTicks - 1, MaxEncTicks}

InitEncoding ==
    /\ cfg = Config(<<R>>, {DotDocx}, [enabled |-> FALSE, follow_dir_targets |-> TRUE,
                                       allow_outside_roots |-> FALSE, max_chain |-> 2], NoExclusion)
    /\ tree = AllFilesPresent
    /\ links = [l \in LinkFiles |-> NoShortcut]
    /\ DiscIdle
    /\ ver_in \in [c1 : EncChoices, m1 : EncTicks, c2 : EncChoices, m2 : EncTicks]
    /\ ver_out = <<>>
    /\ CallIdle
    /\ PipelineIdle

SpecEncoding == InitEncoding /\ [][NextVersion]_vars

\* the numbers the key of a file name is made of (lines 28-63): priority, date, the
\* four version components, revision, whole seconds of the mtime
KeyFields(name, ticks) ==
    LET date_int == DateInt(Search("_RX_DATE1", name), Search("_RX_DATE_JP", name))
        semver == SemverOf(Search("_RX_SEMVER", name))
        rev == RevOf(Search("_RX_REV", name))
    IN  <<Priority(date_int, semver, rev), date_int, semver[1], semver[2], semver[3], semver[4],
          rev, IntTrunc(ticks)>>

\* a < b for tuples of numbers of one length, field by field
FieldsLess(a, b) ==
    \E i \in 1..Len(a) : (\A t \in 1..(i - 1) : a[t] = b[t]) /\ a[i] < b[i]

\* C11: the keys of two file names compare as strings the way their fields (priority,
\* date, version components, revision, whole seconds of the mtime) compare as numbers,
\* field by field.
C11_FieldOrder ==
    ver_out # <<>> =>
        (StrLess(ver_out[1], ver_out[2])
            <=> FieldsLess(KeyFields(BuildName(ver_in.c1), ver_in.m1),
                           KeyFields(BuildName(ver_in.c2), ver_in.m2)))

(***************************************************************************)
(* SpecLatest: write_latest_map called on lists of records.  The records   *)
(* have or lack each of system, screen_id and doc_type, carry the key of   *)
(* one of the file names Spec_r5.docx and Spec_v2.1_2024-03-01.docx at one *)
(* of two mtimes within the same second, and are                           *)
(* told apart by title and path.  A list is drawn in one order of its      *)
(* records, and the call is made on it in every order.                     *)
(***************************************************************************)
\* the records handed to write_latest_map, at most
MaxDocs == 3

\* the latest mtime of a record, in ticks
MaxLatTicks == 3

LatTicks == {MaxLatTicks - 1, MaxLatTicks}

LatNames ==
    <<BuildName([sep |-> "_", sem |-> <<>>, rev |-> <<"r", "5">>, date |-> <<>>]),
      BuildName([sep |-> "_", sem |-> <<"v", "2", ".", "1">>, rev |-> <<>>,
                 date |-> <<"2", "0", "2", "4", "-", "0", "3", "-", "0", "1">>])>>

\* the key of each name at each mtime
LatKeys == [n \in DOMAIN LatNames, t \in LatTicks |-> infer_version_key(LatNames[n], t)]

LatChoices ==
    [system : {NoneVal, <<"a">>}, screen_id : {NoneVal, <<"s">>}, doc_type : {NoneVal, <<"t">>},
     name : DOMAIN LatNames, ticks : LatTicks]

\* a number for each choice, to draw every list of records in one order only
LatCode(c) ==
    (IF c.system = NoneVal THEN 0 ELSE 1) + (IF c.screen_id = NoneVal THEN 0 ELSE 2)
        + (IF c.doc_type = NoneVal THEN 0 ELSE 4) + 8 * c.name + 16 * c.ticks

\* the DocIndex of the i-th record, in the fields write_latest_map reads
LatDoc(i, c) ==
    [title |-> <<"T", DigitChar(i)>>, path |-> <<"c", ":", "\\", "r", "\\", DigitChar(i)>>,
     updated_at |-> IsoSeconds(c.ticks), mtime_epoch |-> c.ticks,
     version_key |-> LatKeys[c.name, c.ticks],
     system |-> c.system, screen_id |-> c.screen_id, doc_type |-> c.doc_type]

\* the orders a list of MaxDocs records can be handed over in
Orders == {p \in [1..MaxDocs -> 1..MaxDocs] : \A i, j \in 1..MaxDocs : p[i] = p[j] => i = j}

InOrder == [i \in 1..MaxDocs |-> i]

\* the records of a call, in the order p
DocsIn(in, p) == [i \in 1..MaxDocs |-> LatDoc(p[i], in.docs[p[i]])]

InitLatest ==
    /\ cfg = Config(<<R>>, {DotDocx}, [enabled |-> FALSE, follow_dir_targets |-> TRUE,
                                       allow_outside_roots |-> FALSE, max_chain |-> 2], NoExclusion)
    /\ tree = AllFilesPresent
    /\ links = [l \in LinkFiles |-> NoShortcut]
    /\ DiscIdle
    /\ ver_in = <<>>
    /\ ver_out = <<>>
    /\ call_in \in [docs : [1..MaxDocs -> LatChoices], allow_fallback : BOOLEAN]
    /\ \A i \in 1..(MaxDocs - 1) : LatCode(call_in.docs[i]) <= LatCode(call_in.docs[i + 1])
    /\ call_out = <<>>
    /\ PipelineIdle

\* write_latest_map on the records in each order
WriteLatestMap ==
    /\ call_in # <<>>
    /\ call_out = <<>>
    /\ call_out' = [p \in Orders |-> write_latest_map(DocsIn(call_in, p), call_in.allow_fallback)]
    /\ UNCHANGED <<call_in, ver_in, ver_out, fsvars, dvars, pvars>>

NextLatest == WriteLatestMap

SpecLatest == InitLatest /\ [][NextLatest]_vars

\* the entries of a latest map: how many, and the heading and the path line of the i-th
EntryCount(out) == (Len(out.lines) - 3) \div 6

EntryHead(out, i) == out.lines[6 * i - 1]

EntryPath(out, i) == out.lines[6 * i + 1]

HeadOf(k) == <<"## ">> \o k[1] \o <<" / ">> \o k[2] \o <<" / ">> \o k[3]

PathLineOf(d) == <<"- latest_path: ">> \o d.path

\* the groups the records fall into, and the records of a group
GroupsOf(docs, fb) == {GroupKey(docs[i], fb) : i \in DOMAIN docs} \ {<<>>}

Members(docs, fb, k) == {i \in DOMAIN docs : GroupKey(docs[i], fb) = k}

\* record a is newer than record b: the greater version key, of equal keys the greater mtime
Newer(a, b) ==
    \/ StrLess(b.version_key, a.version_key)
    \/ a.version_key = b.version_key /\ a.mtime_epoch > b.mtime_epoch

\* the records of group k none of the group is newer than
Newest(docs, fb, k) ==
    {i \in Members(docs, fb, k) : \A j \in Members(docs, fb, k) : ~Newer(docs[j], docs[i])}

\* one entry per group, each naming a newest record of its group, in ascending order of
\* the group keys
RightEntries(out, docs, fb) ==
    /\ EntryCount(out) = Cardinality(GroupsOf(docs, fb))
    /\ \A i \in 1..EntryCount(out) :
          \E k \in GroupsOf(docs, fb) :
              /\ EntryHead(out, i) = HeadOf(k)
              /\ \E d \in Newest(docs, fb, k) : EntryPath(out, i) = PathLineOf(docs[d])
              /\ \A j \in (i + 1)..EntryCount(out) :
                    \E k2 \in GroupsOf(docs, fb) :
                        EntryHead(out, j) = HeadOf(k2) /\ TupleLess(k, k2)

\* every entry names the first of the newest records of its group
FirstOfNewest(out, docs, fb) ==
    \A i \in 1..EntryCount(out) :
        \A k \in GroupsOf(docs, fb) :
            EntryHead(out, i) = HeadOf(k) =>
                \E d \in Newest(docs, fb, k) :
                    /\ \A e \in Newest(docs, fb, k) : d <= e
                    /\ EntryPath(out, i) = PathLineOf(docs[d])

\* the group of the i-th entry has one newest record
Decided(out, docs, fb, i) ==
    \A k \in GroupsOf(docs, fb) :
        EntryHead(out, i) = HeadOf(k) => Cardinality(Newest(docs, fb, k)) = 1

\* C12 as claimed: the latest map has one entry per group, in ascending order of the
\* group keys, each naming the record of the group with the greatest version key and
\* of those the greatest mtime, and the records handed over in any other order give
\* the same entries.
C12_LatestSelection ==
    call_out # <<>> =>
        \A p \in Orders :
            /\ RightEntries(call_out[p], DocsIn(call_in, p), call_in.allow_fallback)
            /\ call_out[p] = call_out[InOrder]

\* C12: the latest map has one entry per group, in ascending order of the group keys,
\* each naming a record of the group with the greatest version key and of those the
\* greatest mtime; handed over in any other order the records give the same groups in
\* the same order, and the same record for every group in which only one record has the
\* greatest version key and mtime; of several such records the entry names the one
\* handed over first.
C12_LatestUpToTies ==
    call_out # <<>> =>
        \A p \in Orders :
            /\ RightEntries(call_out[p], DocsIn(call_in, p), call_in.allow_fallback)
            /\ FirstOfNewest(call_out[p], DocsIn(call_in, p), call_in.allow_fallback)
            /\ EntryCount(call_out[p]) = EntryCount(call_out[InOrder])
            /\ \A i \in 1..EntryCount(call_out[p]) :
                  /\ EntryHead(call_out[p], i) = EntryHead(call_out[InOrder], i)
                  /\ Decided(call_out[InOrder], DocsIn(call_in, InOrder), call_in.allow_fallback, i)
                        => EntryPath(call_out[p], i) = EntryPath(call_out[InOrder], i)

\* three records of one group, each newer than the one before it, next to no other:
\* the entry names the last of them
C12_Witness ==
    /\ call_out # <<>>
    /\ \E k \in GroupsOf(DocsIn(call_in, InOrder), call_in.allow_fallback) :
          /\ Members(DocsIn(call_in, InOrder), call_in.allow_fallback, k) = 1..MaxDocs
          /\ \A i \in 1..(MaxDocs - 1) :
                Newer(DocsIn(call_in, InOrder)[i + 1], DocsIn(call_in, InOrder)[i])
          /\ EntryPath(call_out[InOrder], 1) = PathLineOf(DocsIn(call_in, InOrder)[MaxDocs])

\* the headings of a latest map
Heads(out) == {EntryHead(out, i) : i \in 1..EntryCount(out)}

\* the triple of a record with the sentinel in place of each absent field; <<>> for a
\* record with an absent field when there is no fallback
SentinelKey(d, fb) ==
    IF ~fb /\ (d.system = NoneVal \/ d.screen_id = NoneVal \/ d.doc_type = NoneVal) THEN <<>>
    ELSE <<IF d.system = NoneVal THEN NoSystem ELSE d.system,
           IF d.screen_id = NoneVal THEN NoScreen ELSE d.screen_id,
           IF d.doc_type = NoneVal THEN NoType ELSE d.doc_type>>

\* C13: with fallback the groups of the latest map are the (system, screen, doc-type)
\* triples of the records, each absent field replaced by its sentinel and each present
\* field kept; without fallback they are the triples of the records that have all
\* three fields.
C13_FallbackGrouping ==
    call_out # <<>> =>
        Heads(call_out[InOrder])
            = {HeadOf(k) : k \in {SentinelKey(DocsIn(call_in, InOrder)[i], call_in.allow_fallback) :
                                      i \in 1..MaxDocs} \ {<<>>}}

(***************************************************************************)
(* SpecMerge: _upsert_aliases_in_existing_md called on an artifact and a   *)
(* list of aliases, and once more on what it returned.  The artifact is    *)
(* the one build_markdown wrote for a file of the tree, with or without    *)
(* aliases of its own, or a file left empty; the aliases are paths of      *)
(* shortcuts of the tree, sorted as main() sorts them.                     *)
(***************************************************************************)
\* the aliases of a list, at most
MaxAliases == 2

MergeFiles == {FA, FB, KF}

MergeLinks == {L1, KL1, KL2}

MergeAliases ==
    {SortedStrings({PathStr(l) : l \in S}) : S \in {T \in SUBSET MergeLinks : Cardinality(T) <= MaxAliases}}

\* the artifact handed over: written for the file p with the aliases prior, or empty
MergeText(in) ==
    IF in.written THEN build_markdown(FreshRecord(_norm_key(in.p), in.p, AllFilesPresent[in.p], in.prior))
    ELSE Truncated

InitMerge ==
    /\ cfg = Config(<<R, K>>, {DotDocx}, [enabled |-> TRUE, follow_dir_targets |-> TRUE,
                                          allow_outside_roots |-> FALSE, max_chain |-> 2], NoExclusion)
               @@ [system_from_path |-> [enabled |-> TRUE, depth_from_root |-> 1],
                   screen_id_regex |-> <<>>, doc_type_rules |-> <<>>, keywords_topk |-> 15,
                   latest_map |-> [enabled |-> TRUE, allow_fallback_keys |-> TRUE]]
    /\ tree = AllFilesPresent
    /\ links = [l \in LinkFiles |-> NoShortcut]
    /\ DiscIdle
    /\ ver_in = <<>>
    /\ ver_out = <<>>
    /\ call_in \in [p : MergeFiles, prior : MergeAliases, aliases : MergeAliases, written : BOOLEAN]
    /\ call_out = <<>>
    /\ PipelineIdle

\* the second call, on the text of the first
MergeAgain(r, aliases) == [first |-> r, second |-> _upsert_aliases_in_existing_md(r.md, aliases)]

MergeAliasesTwice ==
    /\ call_in # <<>>
    /\ call_out = <<>>
    /\ call_out' = MergeAgain(_upsert_aliases_in_existing_md(MergeText(call_in), call_in.aliases),
                              call_in.aliases)
    /\ UNCHANGED <<call_in, ver_in, ver_out, fsvars, dvars, pvars>>

NextMerge == MergeAliasesTwice

SpecMerge == InitMerge /\ [][NextMerge]_vars

\* the set of the strings of a list
Range(sq) == {sq[i] : i \in 1..Len(sq)}

\* the ALIASES section of an artifact: its lines from the header up to the next
\* header, and the artifact without them and without the aliases of the front matter
AliasSpan(body) ==
    LET a == FirstIndex(body, AliasHdr)
        later == {i \in (a + 1)..Len(body) : IsHeaderLine(body[i])}
        e == IF later = {} THEN Len(body) + 1 ELSE CHOOSE i \in later : \A h \in later : i <= h
    IN  IF a = 0 THEN <<1, 0>> ELSE <<a, e - 1>>

AliasItems(md) ==
    LET sp == AliasSpan(md.body)
    IN  SelectSeq(SubSeq(md.body, sp[1], sp[2]), LAMBDA ln : Len(ln) >= 1 /\ ln[1] = "- ")

OtherSections(md) ==
    LET sp == AliasSpan(md.body)
    IN  [fm |-> [md.fm EXCEPT !.aliases = <<>>],
         body |-> IF sp[2] = 0 THEN md.body
                  ELSE SubSeq(md.body, 1, sp[1] - 1) \o SubSeq(md.body, sp[2] + 1, Len(md.body))]

\* the merge of aliases into the artifact before gave the call result r: nothing but
\* the aliases of the front matter and the ALIASES section differs, that section lists
\* the aliases and stands right after the PATH section
MergedInto(before, aliases, r) ==
    /\ ~r.raised
    /\ r.md.fm.aliases = aliases
    /\ AliasItems(r.md) = ItemLines(aliases)
    /\ OtherSections(r.md) = OtherSections(before)
    /\ FirstIndex(r.md.body, AliasHdr) = FirstIndex(r.md.body, PathHdr) + 4

\* C14: merging aliases into an artifact changes the aliases of the front matter and
\* the ALIASES section (which then lists them, right after the PATH section) and
\* nothing else; merging the same aliases once more gives the same text; with no
\* aliases, or a front matter that cannot be read, the text is returned as it was.
C14_MergeFrame ==
    call_out # <<>> =>
        IF call_in.aliases = <<>> \/ ~_read_front_matter(MergeText(call_in)).ok
        THEN ~call_out.first.raised /\ call_out.first.md = MergeText(call_in)
        ELSE /\ MergedInto(MergeText(call_in), call_in.aliases, call_out.first)
             /\ call_out.second = call_out.first

(***************************************************************************)
(* SpecSystem: infer_system called on a file of the tree, a list of roots  *)
(* (one inside the other in either order, apart, or none holding the       *)
(* file) and a depth.                                                      *)
(***************************************************************************)
\* depth_from_root, at most
MaxDepth == 3

SystemRoots == {<<R>>, <<SUB>>, <<K>>, <<R, SUB>>, <<SUB, R>>, <<K, R>>, <<SUB, K>>}

InitSystem ==
    /\ cfg = Config(<<R>>, {DotDocx}, [enabled |-> FALSE, follow_dir_targets |-> TRUE,
                                       allow_outside_roots |-> FALSE, max_chain |-> 2], NoExclusion)
    /\ tree = AllFilesPresent
    /\ links = [l \in LinkFiles |-> NoShortcut]
    /\ DiscIdle
    /\ ver_in = <<>>
    /\ ver_out = <<>>
    /\ call_in \in [file_path : RegularFiles, roots : SystemRoots,
                    sys_cfg : [enabled : {TRUE}, depth_from_root : 1..MaxDepth]]
    /\ call_out = <<>>
    /\ PipelineIdle

InferSystem ==
    /\ call_in # <<>>
    /\ call_out = <<>>
    /\ call_out' = <<infer_system(call_in.file_path, call_in.roots, call_in.sys_cfg)>>
    /\ UNCHANGED <<call_in, ver_in, ver_out, fsvars, dvars, pvars>>

NextSystem == InferSystem

SpecSystem == InitSystem /\ [][NextSystem]_vars

\* the roots of a list that hold the file, and the deepest of them
Holding(file_path, roots) == {i \in 1..Len(roots) : RelativeTo(file_path, roots[i]).ok}

Nearest(file_path, roots) ==
    roots[CHOOSE i \in Holding(file_path, roots) :
              \A j \in Holding(file_path, roots) : Len(roots[j]) <= Len(roots[i])]

\* the part at the given depth below root, None when there are fewer parts
PartBelow(file_path, root, depth) ==
    IF Len(RelativeTo(file_path, root).parts) >= depth THEN RelativeTo(file_path, root).parts[depth]
    ELSE NoneVal

\* C16: the system tag is the part of the path at the configured depth below the
\* deepest root that holds the file; there is no tag when that root has fewer parts
\* below it, or when no root holds the file.
C16_NearestRoot ==
    call_out # <<>> =>
        call_out[1] = IF Holding(call_in.file_path, call_in.roots) = {} THEN NoneVal
                      ELSE PartBelow(call_in.file_path, Nearest(call_in.file_path, call_in.roots),
                                     call_in.sys_cfg.depth_from_root)

(***************************************************************************)
(* Spec: main() run again and again over a tree that changes between the   *)
(* runs.  A run is the steps StartRun (lines 398-451), one of StatFails,   *)
(* SkipUnchanged and Reprocess per target (lines 453-577), SaveState       *)
(* (lines 579-582) and WriteLatest (lines 584-593); Crash ends it between *)
(* two steps, CrashInWrite inside the write of an artifact, which is left  *)
(* empty.  The fields log, start, clean, at and before of run are history: *)
(* what each step did, the output directory when the run began, whether    *)
(* the trees and the output directory were left alone since, where a crash *)
(* ended the run, and the run before.                                      *)
(***************************************************************************)
\* the runs started, and the changes made to the trees and the output directory
\* between and during them, at most
MaxRuns == 3

MaxChanges == 1

PipelineConfigs ==
    {Config(<<root>>, {DotDocx},
            [enabled |-> TRUE, follow_dir_targets |-> TRUE, allow_outside_roots |-> FALSE,
             max_chain |-> MaxChain], NoExclusion)
        @@ [system_from_path |-> [enabled |-> TRUE, depth_from_root |-> 1],
            screen_id_regex |-> <<>>, doc_type_rules |-> <<>>, keywords_topk |-> 15,
            latest_map |-> [enabled |-> TRUE, allow_fallback_keys |-> TRUE]] :
        root \in {R, K}}

\* below the configured root: the file that gets edited, the file that gets deleted,
\* the shortcuts, and where the shortcuts point
Edited == IF cfg.roots[1] = R THEN FA ELSE KF

Deleted == IF cfg.roots[1] = R THEN FB ELSE KF

WatchedLinks == {l \in {L1, T1, KL1, KL2} : IsUnder(l, cfg.roots[1])}

LinkTarget(l) == IF IsUnder(l, R) THEN FA ELSE KF

Init ==
    /\ cfg \in PipelineConfigs
    /\ tree = AllFilesPresent
    /\ \E first \in {NoPath} \cup {l \in WatchedLinks : l \in {L1, KL1}} :
          links = [l \in LinkFiles |-> IF l = first THEN Shortcut(LinkTarget(l)) ELSE NoShortcut]
    /\ DiscIdle
    /\ VersionIdle
    /\ PipelineIdle

\* lines 470, 575, 581, 589: what is written to the output directory is written
\* unless it is a dry run
WritesAllowed(dry_run) == ~dry_run

\* FreshStateFiles gone wrong: the entries loaded are carried over
FreshStateFiles_carried(prev) == prev

\* line 440: the new state starts empty, whatever was loaded
FreshStateFiles(prev) == <<>>

\* SaveDue gone wrong: the state is saved wherever the loop stands
SaveDue_anytime(rn) == TRUE

\* line 579 comes after the loop over the targets
SaveDue(rn) == rn.i > Len(rn.targets)

\* line 442
ScanNow == iter_files(cfg.roots)

\* lines 398-451: the state is loaded, the tree is scanned, the aliases are gathered
StartRun ==
    /\ pc = "idle"
    /\ used.runs < MaxRuns
    /\ \E dry \in BOOLEAN :
          run' = [status |-> "running", dry_run |-> dry, prev |-> load_state,
                  items |-> ScanNow,
                  targets |-> UniqueTargets(ScanNow, {}),
                  i |-> 1, docs |-> <<>>, new_state_files |-> FreshStateFiles(load_state),
                  log |-> <<>>,
                  start |-> [state_file |-> state_file, artifacts |-> artifacts,
                             latest_map |-> latest_map],
                  clean |-> TRUE, at |-> "idle", before |-> Summary(run)]
    /\ pc' = "scan"
    /\ used' = [used EXCEPT !.runs = @ + 1]
    /\ UNCHANGED <<fsvars, dvars, vvars, ovars>>

InLoop == pc = "scan" /\ run.i <= Len(run.targets)

CurK == run.targets[run.i].k

CurP == run.targets[run.i].p

CurAliases == AliasesOf(run.items, CurK)

NoMd == [fm |-> <<>>, body |-> <<>>]

\* the artifacts that differ between two contents of <out>/docs
Differing(a, b) ==
    {id \in DOMAIN a \cup DOMAIN b : id \notin DOMAIN a \/ id \notin DOMAIN b \/ a[id] # b[id]}

\* what a step of the loop did: the decision taken for the target, what stat() said,
\* whether the step wrote the artifact of the target, the artifact it left on disk for
\* it, and the artifacts that are not as they were before the step
LogEntry(decision, st, wrote, doc_id, after) ==
    [k |-> CurK, p |-> CurP, decision |-> decision, st |-> st, aliases |-> CurAliases,
     wrote |-> wrote, doc_id |-> doc_id,
     has_md |-> doc_id \in DOMAIN after,
     md |-> IF doc_id \in DOMAIN after THEN after[doc_id] ELSE NoMd,
     touched |-> Differing(artifacts, after)]

NoStat == [present |-> FALSE, mtime |-> 0, size |-> 0, content |-> 0]

\* lines 454-457: the target is gone by the time it is looked at
StatFails ==
    /\ InLoop
    /\ ~HasStat(CurP)
    /\ run' = [run EXCEPT !.i = @ + 1,
                          !.log = Append(@, LogEntry("gone", NoStat, FALSE, DocIdOf(CurK), artifacts))]
    /\ UNCHANGED <<fsvars, dvars, vvars, ovars, pc, used>>

\* lines 465-517: the state holds the file as it is; the aliases are merged into the
\* artifact and the record is read back from it
SkipUnchanged ==
    /\ InLoop
    /\ HasStat(CurP)
    /\ Unchanged(run.prev, CurK, CurP, Stat(CurP))
    /\ LET st == Stat(CurP)
           prev_ent == PrevEnt(run.prev, CurK, CurP)
           doc_id == prev_ent.doc_id
           has_md == doc_id \in DOMAIN artifacts
           merged == _upsert_aliases_in_existing_md(artifacts[doc_id], CurAliases)
           wrote == /\ WritesAllowed(run.dry_run)
                    /\ has_md
                    /\ CurAliases # <<>>
                    /\ ~merged.raised
                    /\ merged.md # artifacts[doc_id]
           after == IF wrote THEN [artifacts EXCEPT ![doc_id] = merged.md] ELSE artifacts
       IN  /\ artifacts' = after
           /\ run' = [run EXCEPT
                  !.i = @ + 1,
                  !.docs = IF has_md
                           THEN Append(@, SkipRecord(_read_front_matter(after[doc_id]), CurK, CurP,
                                                      st, prev_ent, doc_id, CurAliases))
                           ELSE @,
                  !.new_state_files = Put(@, CurK, StateEntry(st, prev_ent.sha1, doc_id, CurP)),
                  !.log = Append(@, LogEntry("skip", st, wrote, doc_id, after))]
    /\ UNCHANGED <<fsvars, dvars, vvars, state_file, latest_map, pc, used>>

\* lines 519-577: the file is hashed and extracted, its record is built and its
\* artifact written
Reprocess ==
    /\ InLoop
    /\ HasStat(CurP)
    /\ ~Unchanged(run.prev, CurK, CurP, Stat(CurP))
    /\ LET st == Stat(CurP)
           doc == FreshRecord(CurK, CurP, st, CurAliases)
           wrote == WritesAllowed(run.dry_run)
           after == IF wrote THEN Put(artifacts, doc.doc_id, build_markdown(doc)) ELSE artifacts
       IN  /\ artifacts' = after
           /\ run' = [run EXCEPT
                  !.i = @ + 1,
                  !.docs = Append(@, doc),
                  !.new_state_files = Put(@, CurK, StateEntry(st, doc.sha1, doc.doc_id, CurP)),
                  !.log = Append(@, LogEntry("reprocess", st, wrote, doc.doc_id, after))]
    /\ UNCHANGED <<fsvars, dvars, vvars, state_file, latest_map, pc, used>>

\* lines 579-582
SaveState ==
    /\ pc = "scan"
    /\ SaveDue(run)
    /\ state_file' = IF WritesAllowed(run.dry_run)
                     THEN [exists |-> TRUE, generated_at |-> used.runs, files |-> run.new_state_files]
                     ELSE state_file
    /\ pc' = "latest"
    /\ UNCHANGED <<fsvars, dvars, vvars, artifacts, latest_map, run, used>>

\* lines 584-593
WriteLatest ==
    /\ pc = "latest"
    /\ latest_map' = IF cfg.latest_map.enabled /\ WritesAllowed(run.dry_run)
                     THEN write_latest_map(run.docs, cfg.latest_map.allow_fallback_keys)
                     ELSE latest_map
    /\ run' = [run EXCEPT !.status = "complete"]
    /\ pc' = "idle"
    /\ UNCHANGED <<fsvars, dvars, vvars, state_file, artifacts, used>>

\* the process is killed, or an exception leaves main()
Crash ==
    /\ pc \in {"scan", "latest"}
    /\ run' = [run EXCEPT !.status = "crashed", !.at = pc]
    /\ pc' = "idle"
    /\ UNCHANGED <<fsvars, dvars, vvars, ovars, used>>

\* lines 472-473: the merge gives a text other than the one read, which is written
MergeWrites(md, aliases) ==
    LET merged == _upsert_aliases_in_existing_md(md, aliases)
    IN  ~merged.raised /\ merged.md # md

\* the artifact the step for the target at hand writes (lines 473 and 577), if any
WriteUnderway ==
    IF ~WritesAllowed(run.dry_run) THEN {}
    ELSE IF ~Unchanged(run.prev, CurK, CurP, Stat(CurP)) THEN {DocIdOf(CurK)}
    ELSE LET doc_id == PrevEnt(run.prev, CurK, CurP).doc_id
         IN  IF /\ doc_id \in DOMAIN artifacts
                /\ CurAliases # <<>>
                /\ MergeWrites(artifacts[doc_id], CurAliases)
             THEN {doc_id}
             ELSE {}

\* the process is killed inside write_text, which has opened the artifact for writing
\* and has not written it yet
CrashInWrite ==
    /\ InLoop
    /\ HasStat(CurP)
    /\ \E id \in WriteUnderway : artifacts' = Put(artifacts, id, Truncated)
    /\ run' = [run EXCEPT !.status = "crashed", !.at = pc]
    /\ pc' = "idle"
    /\ UNCHANGED <<fsvars, dvars, vvars, state_file, latest_map, used>>

Disturbed == [run EXCEPT !.clean = FALSE]

\* a file is saved again: a later mtime, other content
Touch ==
    /\ pc = "idle"
    /\ used.changes < MaxChanges
    /\ tree[Edited].present
    /\ tree' = [tree EXCEPT ![Edited].mtime = @ + 1, ![Edited].content = 1 - @]
    /\ run' = Disturbed
    /\ used' = [used EXCEPT !.changes = @ + 1]
    /\ UNCHANGED <<cfg, links, dvars, vvars, ovars, pc>>

\* a file is replaced by a longer one that keeps the mtime
Resize ==
    /\ pc = "idle"
    /\ used.changes < MaxChanges
    /\ tree[Edited].present
    /\ tree' = [tree EXCEPT ![Edited].size = @ + 1, ![Edited].content = 1 - @]
    /\ run' = Disturbed
    /\ used' = [used EXCEPT !.changes = @ + 1]
    /\ UNCHANGED <<cfg, links, dvars, vvars, ovars, pc>>

\* a file is deleted, between two runs or while the loop of a run is under way
RemoveFile ==
    /\ pc \in {"idle", "scan"}
    /\ used.changes < MaxChanges
    /\ tree[Deleted].present
    /\ tree' = [tree EXCEPT ![Deleted].present = FALSE]
    /\ run' = Disturbed
    /\ used' = [used EXCEPT !.changes = @ + 1]
    /\ UNCHANGED <<cfg, links, dvars, vvars, ovars, pc>>

\* a shortcut is created or deleted
ToggleLink ==
    /\ pc = "idle"
    /\ used.changes < MaxChanges
    /\ \E l \in WatchedLinks :
          links' = [links EXCEPT ![l] = IF @.present THEN NoShortcut ELSE Shortcut(LinkTarget(l))]
    /\ run' = Disturbed
    /\ used' = [used EXCEPT !.changes = @ + 1]
    /\ UNCHANGED <<cfg, tree, dvars, vvars, ovars, pc>>

\* an artifact is deleted from the output directory by hand
RemoveArtifact ==
    /\ pc = "idle"
    /\ used.changes < MaxChanges
    /\ \E id \in DOMAIN artifacts :
          artifacts' = [x \in DOMAIN artifacts \ {id} |-> artifacts[x]]
    /\ run' = Disturbed
    /\ used' = [used EXCEPT !.changes = @ + 1]
    /\ UNCHANGED <<fsvars, dvars, vvars, state_file, latest_map, pc>>

Next ==
    \/ StartRun
    \/ StatFails
    \/ SkipUnchanged
    \/ Reprocess
    \/ SaveState
    \/ WriteLatest
    \/ Crash
    \/ CrashInWrite
    \/ Touch
    \/ Resize
    \/ RemoveFile
    \/ ToggleLink
    \/ RemoveArtifact

Spec == Init /\ [][Next]_vars

(***************************************************************************)
(* main(): the claims.                                                     *)
(***************************************************************************)
\* the last run came to its end
Done == pc = "idle" /\ run.status = "complete"

\* sha1_file and extract_text_and_outline are called on the reprocess path only, once
\* per target (lines 521, 528)
HashCalls(rn) == Cardinality({i \in 1..Len(rn.log) : rn.log[i].decision = "reprocess"})

ExtractCalls(rn) == Cardinality({i \in 1..Len(rn.log) : rn.log[i].decision = "reprocess"})

Decisions(log) == [i \in 1..Len(log) |-> [k |-> log[i].k, decision |-> log[i].decision]]

\* the run before this one was a completed non-dry run, and neither tree nor output
\* directory was touched from its start to the end of this one
Repeated ==
    /\ Done
    /\ ~run.dry_run
    /\ run.clean
    /\ run.before.status = "complete"
    /\ ~run.before.dry_run
    /\ run.before.clean

\* C1: a non-dry run that follows a completed non-dry run, with no change to the tree
\* in between, leaves every artifact and the latest index byte for byte as the first
\* run left them, and calls neither the hashing nor the extraction.
C1_Idempotent ==
    Repeated =>
        /\ artifacts = run.start.artifacts
        /\ latest_map = run.start.latest_map
        /\ HashCalls(run) = 0
        /\ ExtractCalls(run) = 0

\* the entries of the run's log that stand for a target stat() found
Looked(rn) == {i \in 1..Len(rn.log) : rn.log[i].decision # "gone"}

\* the state loaded at the start of the run holds the target with this mtime and size
Known(rn, e) ==
    /\ e.k \in DOMAIN rn.prev
    /\ rn.prev[e.k].mtime = e.st.mtime
    /\ rn.prev[e.k].size = e.st.size

C3_NeverDeleted ==
    [][\A k \in DOMAIN state_file.files : k \in DOMAIN state_file'.files]_vars

\* the identities of the run that stat() found
StatKeys(rn) == {rn.log[i].k : i \in Looked(rn)}

\* C3 as amended: the state file is written by the save step of a non-dry run and by
\* nothing else, and the map written holds exactly the identities the run discovered
\* and could stat: an entry stays while its file keeps being discovered, and is gone
\* after the first completed non-dry run that no longer finds the file.
C3_RebuiltEachRun ==
    [][/\ state_file' # state_file => (pc = "scan" /\ pc' = "latest" /\ ~run.dry_run)
       /\ (pc = "scan" /\ pc' = "latest" /\ ~run.dry_run) =>
              /\ state_file'.exists
              /\ DOMAIN state_file'.files = StatKeys(run)]_vars

\* C3 witness: a completed non-dry run left a state map without an identity that the
\* map it loaded held
C3_Witness ==
    /\ Done
    /\ ~run.dry_run
    /\ \E k \in DOMAIN run.prev : k \notin DOMAIN state_file.files
    /\ DOMAIN state_file.files # {}

\* the entry of a log for identity k, <<>> if there is none
EntryFor(log, k) ==
    IF \E i \in 1..Len(log) : log[i].k = k THEN <<log[CHOOSE i \in 1..Len(log) : log[i].k = k]>> ELSE <<>>

\* C4: when a completed non-dry run found a file through some alias, and the next
\* completed non-dry run finds the file unchanged (skip path, artifact in place)
\* through an alias the earlier run did not have, then after the later run the alias
\* list of the artifact (front matter and ALIASES section) is the sorted union of the
\* aliases of the two runs, and the rest of the artifact is as it was.
C4_AliasUnion ==
    (/\ Done
     /\ ~run.dry_run
     /\ run.before.status = "complete"
     /\ ~run.before.dry_run) =>
        \A i \in Looked(run) :
            LET e == run.log[i]
                b == EntryFor(run.before.log, e.k)
                all == SortedStrings(Range(b[1].aliases) \cup Range(e.aliases))
            IN  (/\ e.decision = "skip"
                 /\ b # <<>>
                 /\ b[1].aliases # <<>>
                 /\ Range(e.aliases) \ Range(b[1].aliases) # {}
                 /\ e.doc_id \in DOMAIN run.start.artifacts) =>
                    /\ e.md.fm.aliases = all
                    /\ AliasItems(e.md) = ItemLines(all)
                    /\ OtherSections(e.md) = OtherSections(run.start.artifacts[e.doc_id])

\* the doc ids of the targets the loop of the run has dealt with
Processed(rn) == {rn.log[i].doc_id : i \in 1..Len(rn.log)}

\* the artifacts that are not as they were when the run began
Changed(rn) == Differing(rn.start.artifacts, artifacts)

\* the run was cut off inside the loop over the targets, and nothing else has touched
\* the trees or the output directory since it began
CutOff == run.status = "crashed" /\ run.at = "scan" /\ run.clean

\* C5 as claimed: the state file is written only after every identity has been
\* processed, and after a run that was cut off partway, with the state of an earlier
\* completed run on disk, the state file and the artifacts are as they were when the
\* run began, never a mixture.
C5_NoMixture ==
    /\ (run.status # "none" /\ state_file # run.start.state_file) => run.i > Len(run.targets)
    /\ (CutOff /\ run.start.state_file.exists) =>
          /\ state_file = run.start.state_file
          /\ artifacts = run.start.artifacts

\* the doc id of the target the loop of the run stands at
Underway(rn) ==
    IF rn.i > Len(rn.targets) THEN {}
    ELSE {DocIdOf(rn.targets[rn.i].k)}
             \cup {rn.prev[x].doc_id : x \in {rn.targets[rn.i].k, rn.targets[rn.i].p} \cap DOMAIN rn.prev}

\* C5 as amended: the state file is written only after every identity has been
\* processed, and after a run that was cut off partway the state file and the latest
\* index are as they were when the run began, while the artifacts may be a mixture:
\* those of the identities the loop had dealt with may already be rewritten or
\* alias-merged, the one of the identity it stood at may be cut short, and all others
\* are as they were.
C5_StateLast ==
    /\ (run.status # "none" /\ state_file # run.start.state_file) => run.i > Len(run.targets)
    /\ CutOff =>
          /\ state_file = run.start.state_file
          /\ latest_map = run.start.latest_map
          /\ Changed(run) \subseteq Processed(run) \cup Underway(run)
          /\ \A id \in Changed(run) \ Processed(run) : artifacts[id] = Truncated

\* C5 witness: a run was cut off after it had rewritten an artifact and before it had
\* dealt with every target, with a state file of an earlier run in place
C5_Witness ==
    /\ CutOff
    /\ state_file.exists
    /\ Changed(run) # {}
    /\ run.i <= Len(run.targets)

\* C6: a dry run writes nothing to the output directory, and the non-dry run that
\* starts from the same trees and the same output directory builds the same records
\* and takes the same decisions.
C6_DryRun ==
    /\ (run.status \in {"running", "complete"} /\ run.dry_run /\ run.clean) =>
          /\ state_file = run.start.state_file
          /\ artifacts = run.start.artifacts
          /\ latest_map = run.start.latest_map
    /\ (/\ Done
        /\ ~run.dry_run
        /\ run.clean
        /\ run.before.status = "complete"
        /\ run.before.dry_run
        /\ run.before.clean) =>
          /\ Decisions(run.log) = Decisions(run.before.log)
          /\ run.docs = run.before.docs

\* every identity of the state file has the artifact its entry names
Consistent == \A k \in DOMAIN load_state : load_state[k].doc_id \in DOMAIN artifacts

\* an artifact goes from the output directory: no step of main() does that
ByHand == \E id \in DOMAIN artifacts : id \notin DOMAIN artifacts'

\* a step of the loop that decided on a target whose stat did not fail
TargetDecided(rn, after) ==
    /\ Len(after.log) = Len(rn.log) + 1
    /\ after.log[Len(after.log)].decision # "gone"

\* the step added one record, for the identity decided on, to the records of the run
OneRecord(rn, after) ==
    /\ Len(after.docs) = Len(rn.docs) + 1
    /\ after.docs[Len(after.docs)].doc_id = after.log[Len(after.log)].doc_id

\* C17: from an output directory in which every identity of the state file has the
\* artifact its entry names, every step of a run, dry or not, that is not a change by
\* hand leads to such an output directory again, and every step that decides on a
\* target adds exactly one record to the input of the latest map.  The state file is
\* absent at first, so without changes by hand this holds after every completed run.
C17_StateArtifacts ==
    [][(Consistent /\ ~ByHand) =>
           /\ Consistent'
           /\ TargetDecided(run, run') => OneRecord(run, run')]_vars

\* a completed non-dry run after another that skipped one identity and reprocessed
\* another: the state file names an artifact for each, and each gave a record
C17_Witness ==
    /\ Done
    /\ ~run.dry_run
    /\ run.before.status = "complete"
    /\ Consistent
    /\ \E i, j \in Looked(run) : run.log[i].decision = "skip" /\ run.log[j].decision = "reprocess"
    /\ Cardinality(DOMAIN load_state) = Len(run.docs)
    /\ Len(run.docs) = Len(run.log)
====
